---- MODULE Spec2Model ----
(***************************************************************************)
(* The SPDM Responder of spdmlib: process_message, its two dispatch        *)
(* tables and the KeyExchange / PskExchange handlers, over the session     *)
(* pool of the context.  One action is one call of process_message.        *)
(* Two further state machines stand beside it: the session id expression   *)
(* of the exchange handlers over every 16-bit operand (SessionIdSpec) and  *)
(* the process-wide crypto registry (RegistrySpec).  RaceSpec is the       *)
(* registry under two threads that register on one entry at once.          *)
(* CodecSpec runs the encoders and decoders of the wire codec on bytes.    *)
(* RequesterSpec is the Requester's orchestration: init_connection,        *)
(* start_session and end_session over the Requester's own session pool.    *)
(* ChannelSpec is the send and receive paths of both roles over one link:  *)
(* the secured bit of the transport and the direction a record is sealed   *)
(* and opened with.                                                        *)
(***************************************************************************)
EXTENDS Integers, Sequences, FiniteSets, TLC

VARIABLES
    session,                        \* common.session: the pool of session slots
    need_measurement_summary_hash,  \* common.runtime_info.need_measurement_summary_hash
    negotiate_info,                 \* common.negotiate_info: the negotiation steps completed so far
    turn,                           \* the last call of process_message: its frame, what ran, what was sent
    pre                             \* the pool and the flag as they were when that call began

responder_vars == <<session, need_measurement_summary_hash, negotiate_info, turn, pre>>

VARIABLES
    id_call                         \* one evaluation of the session id expression: its operands and its value

session_id_vars == <<id_call>>

VARIABLES
    registry,                       \* the eight CRYPTO_* cells: "uninit" or the provider installed
    registry_history,               \* per cell: whether register / a lookup has been called on it
    registry_call,                  \* the last call on the registry: its arguments and what it returned
    registry_calls                  \* calls made so far

registry_vars == <<registry, registry_history, registry_call, registry_calls>>

VARIABLES
    once_cell,                      \* the CRYPTO_* cell two threads race on: its entry, OnceCell state and value
    callers,                        \* the two threads in <entry>::register: position, provider, return value
    reader                          \* a thread that uses the provider: position, what it got

race_vars == <<once_cell, callers, reader>>

VARIABLES
    codec_call                      \* one call into the wire codec: the function, its input and what it returned

codec_vars == <<codec_call>>

VARIABLES
    requester_session,              \* the Requester's common.session: its pool of session slots
    requester_call                  \* the last orchestration call: its inputs, the commands it ran, its result

requester_vars == <<requester_session, requester_call>>

VARIABLES
    channel,                        \* the session each role holds: its id and its two sequence counters
    wire,                           \* the transport frame in flight between the roles
    channel_call                    \* the last send or receive call: its role, what it received, its result

channel_vars == <<channel, wire, channel_call>>

vars == <<responder_vars, session_id_vars, registry_vars, race_vars, codec_vars, requester_vars, channel_vars>>

\* What each of the state machines leaves alone.
outside_responder == <<session_id_vars, registry_vars, race_vars, codec_vars, requester_vars, channel_vars>>
outside_session_id == <<responder_vars, registry_vars, race_vars, codec_vars, requester_vars, channel_vars>>
outside_registry == <<responder_vars, session_id_vars, race_vars, codec_vars, requester_vars, channel_vars>>
outside_race == <<responder_vars, session_id_vars, registry_vars, codec_vars, requester_vars, channel_vars>>
outside_requester == <<responder_vars, session_id_vars, registry_vars, race_vars, codec_vars, channel_vars>>
outside_channel == <<responder_vars, session_id_vars, registry_vars, race_vars, codec_vars, requester_vars>>
outside_codec == <<responder_vars, session_id_vars, registry_vars, race_vars, requester_vars, channel_vars>>

(***************************************************************************)
(* Sizes.  Lengths are counted in abstract units; the message buffer is a  *)
(* bounded arena, so the order of magnitude is what matters.               *)
(***************************************************************************)
MaxSessions == 2        \* slots of the session pool (config::MAX_SPDM_SESSION_COUNT, a build-time tunable)

\* A u32 as its two 16-bit halves.
U32(hi, lo) == [hi |-> hi, lo |-> lo]

\* x as u32, for a u16 x.
as_u32(x) == U32(0, x % 65536)

\* a << 16 on a u32: the upper half is shifted out.
shl16(a) == U32(a.lo, 0)

\* a + b on u32, wrapping.
add_u32(a, b) ==
    U32((a.hi + b.hi + ((a.lo + b.lo) \div 65536)) % 65536, (a.lo + b.lo) % 65536)

INVALID_SESSION_ID == U32(0, 0)
KEY_EXCHANGE_RSP_SESSION_ID == 65534
PSK_EXCHANGE_RSP_SESSION_ID == 65533

MaxMessageBuffer == 8   \* capacity of a ManagedBuffer (message_k)
RspPrefixLen == 3       \* KEY_EXCHANGE_RSP bytes before the trailing signature and HMAC
PskRspPrefixLen == 4    \* PSK_EXCHANGE_RSP bytes before the trailing HMAC
AsymSize == 1           \* base_asym_sel.get_size()
HashSize == 1           \* base_hash_sel.get_size()

ReqSessionIds == {1}
ReqLens == {2, 4, 5, 6, 9}
HashTypes == {"None", "Tcb", "All"}

(***************************************************************************)
(* SpdmResponseResponseCode, as matched arm by arm by the dispatchers.     *)
(***************************************************************************)
UnsecuredRequestCodes ==
    { "SpdmRequestGetVersion", "SpdmRequestGetCapabilities",
      "SpdmRequestNegotiateAlgorithms", "SpdmRequestGetDigests",
      "SpdmRequestGetCertificate", "SpdmRequestChallenge",
      "SpdmRequestGetMeasurements", "SpdmRequestKeyExchange",
      "SpdmRequestPskExchange" }

SecuredRequestCodes ==
    { "SpdmRequestFinish", "SpdmRequestPskFinish", "SpdmRequestHeartbeat",
      "SpdmRequestKeyUpdate", "SpdmRequestEndSession" }

ResponseCodes ==
    { "SpdmResponseDigests", "SpdmResponseCertificate",
      "SpdmResponseChallengeAuth", "SpdmResponseVersion",
      "SpdmResponseMeasurements", "SpdmResponseCapabilities",
      "SpdmResponseAlgorithms", "SpdmResponseKeyExchangeRsp",
      "SpdmResponseFinishRsp", "SpdmResponsePskExchangeRsp",
      "SpdmResponsePskFinishRsp", "SpdmResponseHeartbeatAck",
      "SpdmResponseKeyUpdateAck", "SpdmResponseEndSessionAck",
      "SpdmResponseError" }

RecognizedCodes == UnsecuredRequestCodes \cup SecuredRequestCodes \cup ResponseCodes

Codes == RecognizedCodes \cup {"Unknown"}

(***************************************************************************)
(* Frames handed to device_io.send.                                        *)
(***************************************************************************)
Frame(secured, code, param1, payload) ==
    [secured |-> secured, code |-> code, param1 |-> param1, payload |-> payload]

\* What a frame carries after its header: the bytes of the encoded payload, as
\* segments, and the value of its measurement_summary_hash field ("absent"
\* when the field is not encoded).
Payload(body, measurement_summary_hash) ==
    [body |-> body, measurement_summary_hash |-> measurement_summary_hash]

NoPayload == Payload(<<>>, "absent")

\* send_spdm_error(error_code, 0): one unsecured ERROR frame, error_code in param1.
send_spdm_error(error_code) == <<Frame(FALSE, "SpdmResponseError", error_code, NoPayload)>>

\* ResponderContext::send_message: encap with secured = false, then device_io.send.
send_message(code, payload) == <<Frame(FALSE, code, "0", payload)>>

\* ResponderContext::send_secured_message: sealed by the session, encap with secured = true.
send_secured_message(code) == <<Frame(TRUE, code, "0", NoPayload)>>

(***************************************************************************)
(* Session slots.                                                          *)
(***************************************************************************)
Slots == 1..MaxSessions

FreeSlot ==
    [ session_id |-> INVALID_SESSION_ID, session_state |-> "NotStarted",
      use_psk |-> FALSE, secret |-> "none", message_k |-> <<>> ]

\* SpdmSession::setup: assigns the id and moves NotStarted to Handshaking.
setup(s, session_id) == [s EXCEPT !.session_id = session_id, !.session_state = "Handshaking"]

\* SpdmSession::teardown: zeroes the secrets and returns the slot to NotStarted.
teardown(s) == FreeSlot

\* get_next_avaiable_session: the first slot that is not in use, 0 when there is none.
get_next_avaiable_session(pool) ==
    IF \E i \in Slots : pool[i].session_state = "NotStarted"
    THEN CHOOSE i \in Slots :
            /\ pool[i].session_state = "NotStarted"
            /\ \A j \in Slots : pool[j].session_state = "NotStarted" => i <= j
    ELSE 0

\* get_session_via_id: the first slot holding the id, 0 when there is none.
get_session_via_id(pool, session_id) ==
    IF \E i \in Slots : pool[i].session_id = session_id
    THEN CHOOSE i \in Slots :
            /\ pool[i].session_id = session_id
            /\ \A j \in Slots : pool[j].session_id = session_id => i <= j
    ELSE 0

(***************************************************************************)
(* ManagedBuffer: append succeeds fully or fails, never partially.         *)
(***************************************************************************)
RECURSIVE BufLen(_)
BufLen(buf) == IF buf = <<>> THEN 0 ELSE Head(buf).len + BufLen(Tail(buf))

Segment(tag, len) == [tag |-> tag, len |-> len]

append_message(mb, tag, len) ==
    IF mb.ok /\ BufLen(mb.buf) + len <= MaxMessageBuffer
    THEN [ok |-> TRUE, buf |-> Append(mb.buf, Segment(tag, len))]
    ELSE [ok |-> FALSE, buf |-> mb.buf]

ManagedBufferDefault == [ok |-> TRUE, buf |-> <<>>]

\* append_message with a slice that spans several segments.
append_message_slice(mb, bytes) ==
    IF mb.ok /\ BufLen(mb.buf) + BufLen(bytes) <= MaxMessageBuffer
    THEN [ok |-> TRUE, buf |-> mb.buf \o bytes]
    ELSE [ok |-> FALSE, buf |-> mb.buf]

\* &buf[..n]
RECURSIVE Slice(_, _)
Slice(buf, n) ==
    IF n <= 0 \/ buf = <<>> THEN <<>>
    ELSE IF Head(buf).len <= n
         THEN <<Head(buf)>> \o Slice(Tail(buf), n - Head(buf).len)
         ELSE <<Segment(Head(buf).tag, n)>>

\* &buf[n..]
RECURSIVE Drop(_, _)
Drop(buf, n) ==
    IF buf = <<>> THEN <<>>
    ELSE IF n <= 0 THEN buf
    ELSE IF Head(buf).len <= n
         THEN Drop(Tail(buf), n - Head(buf).len)
         ELSE <<Segment(Head(buf).tag, Head(buf).len - n)>> \o Tail(buf)

\* buf[from..to].copy_from_slice(bytes)
copy_from_slice(buf, from, to, bytes) == Slice(buf, from) \o bytes \o Drop(buf, to)

(***************************************************************************)
(* What one handler run leaves behind: the pool, the flag, the frames it   *)
(* handed to the device, whether it ended in a panic (an unwrap of a       *)
(* None / Err), and the operations it performed, in program order.         *)
(***************************************************************************)
HandlerResult(pool, flag, sent, panicked, events) ==
    [ session |-> pool, flag |-> flag, sent |-> sent, panicked |-> panicked,
      events |-> events ]

\* One completed operation of a run and what it was applied to.
Event(op, arg) == [op |-> op, arg |-> arg]

\* The first provider operation that fails in a run ("none": all succeed).
CryptoSteps ==
    { "generate_key_pair", "compute_final_key", "sign", "th1", "setup",
      "handshake_secret", "transcript_data", "hmac" }

\* send_message of the response returns Err (transport encap or device_io.send).
IoSteps == {"send"}

Fails == CryptoSteps \cup IoSteps \cup {"none"}

\* The request as the handler sees it: whether the payload decodes, and its fields.
Requests ==
    [ decodable : BOOLEAN, hash_type : HashTypes,
      req_session_id : ReqSessionIds, len : ReqLens ]

NoRequest == [decodable |-> FALSE, hash_type |-> "None", req_session_id |-> 0, len |-> 0]

\* A session id whose shift is applied to the u16 before it is widened.
make_session_id_narrow_shift(req_session_id, rsp_session_id) ==
    add_u32(as_u32(req_session_id), as_u32(rsp_session_id))

\* ((req_session_id as u32) << 16) + rsp_session_id as u32
make_session_id(req_session_id, rsp_session_id) ==
    add_u32(shl16(as_u32(req_session_id)), as_u32(rsp_session_id))

\* measurement_summary_hash_type == Tcb || == All
summary_hash_requested(hash_type) == hash_type = "Tcb" \/ hash_type = "All"

\* measurement_summary_hash { data: [0xaa; SPDM_MAX_HASH_SIZE] }: never computed;
\* the field is on the wire when need_measurement_summary_hash is set.
measurement_summary_hash_field(flag) == IF flag THEN "0xaa" ELSE "absent"

(***************************************************************************)
(* handle_spdm_key_exchange                                                *)
(***************************************************************************)
\* response.spdm_encode into send_buffer: the fields up to opaque, then the
\* signature region filled with 0xbb and the verify_data region with 0xcc.
key_exchange_rsp_encode ==
    << Segment("response_prefix", RspPrefixLen),
       Segment("signature_0xbb", AsymSize),
       Segment("verify_data_0xcc", HashSize) >>

\* A prefix that stops only before verify_data.
key_exchange_temp_used_no_asym(used) == used - HashSize

\* temp_used = used - base_asym_size - base_hash_size
key_exchange_temp_used(used) == used - AsymSize - HashSize

\* spdm_read returned None: the error branch of the first if-let.
key_exchange_decode_fail(pool, flag) ==
    HandlerResult(pool, flag, send_spdm_error("SpdmErrorInvalidRequest"), FALSE,
                  <<Event("send_spdm_error", "SpdmErrorInvalidRequest")>>)

\* A handler that makes room by evicting the first session when the pool is full.
key_exchange_no_session_evict(pool, flag, done) ==
    HandlerResult([pool EXCEPT ![1] = teardown(@)], flag,
                  send_spdm_error("SpdmErrorInvalidRequest"), FALSE,
                  done \o <<Event("teardown", 1),
                            Event("send_spdm_error", "SpdmErrorInvalidRequest")>>)

\* get_next_avaiable_session returned None.
key_exchange_no_session(pool, flag, done) ==
    HandlerResult(pool, flag, send_spdm_error("SpdmErrorInvalidRequest"), FALSE,
                  done \o <<Event("send_spdm_error", "SpdmErrorInvalidRequest")>>)

\* An error branch that sends the error frame and falls through to the response.
key_exchange_early_error_no_return(pool, flag, done) ==
    HandlerResult(pool, flag,
                  send_spdm_error("SpdmErrorInvalidRequest")
                      \o send_message("SpdmResponseKeyExchangeRsp",
                                      Payload(key_exchange_rsp_encode,
                                              measurement_summary_hash_field(flag))),
                  FALSE,
                  done \o <<Event("send_spdm_error", "SpdmErrorInvalidRequest"),
                            Event("send_message", key_exchange_rsp_encode)>>)

\* A failed message_k append, signature or transcript hash before any slot is taken.
key_exchange_early_error(pool, flag, done) ==
    HandlerResult(pool, flag, send_spdm_error("SpdmErrorInvalidRequest"), FALSE,
                  done \o <<Event("send_spdm_error", "SpdmErrorInvalidRequest")>>)

\* From session.unwrap() to the end: setup, secrets, HMAC, patch, send, state change.
key_exchange_create_session(pool, flag, slot, session_id, message_k, fail, done) ==
    LET send_buffer == key_exchange_rsp_encode
        used  == BufLen(send_buffer)
        pool1 == [pool EXCEPT ![slot] = [setup(@, session_id) EXCEPT !.use_psk = FALSE]]
        pool2 == [pool1 EXCEPT ![slot].secret = "dhe"]
        pool3 == [pool2 EXCEPT ![slot].secret = "handshake"]
        via   == get_session_via_id(pool3, session_id)
        k4    == append_message(message_k, "hmac", HashSize)
        torn  == [pool3 EXCEPT ![via] = teardown(@)]
        pool4 == [pool3 EXCEPT ![via].message_k = k4.buf]
        signed  == copy_from_slice(send_buffer, used - HashSize - AsymSize, used - HashSize,
                                   <<Segment("signature", AsymSize)>>)
        patched == copy_from_slice(signed, used - HashSize, used,
                                   <<Segment("hmac", HashSize)>>)
        via2  == get_session_via_id(pool4, session_id)
        pool5 == [pool4 EXCEPT ![via2].session_state = "Handshaking"]
        e1 == done \o <<Event("setup", slot)>>
        e2 == e1 \o <<Event("generate_handshake_secret", slot)>>
        e3 == e2 \o <<Event("calc_rsp_transcript_data", message_k.buf)>>
        e4 == e3 \o <<Event("generate_hmac", message_k.buf)>>
        e5 == e4 \o <<Event("append_message", k4.buf), Event("store_message_k", via)>>
        error == <<Event("send_spdm_error", "SpdmErrorInvalidRequest")>>
    IN  IF fail = "setup" THEN HandlerResult(pool, flag, <<>>, TRUE, done \o <<Event("panic", fail)>>)
        ELSE IF fail = "handshake_secret"
             THEN HandlerResult(pool2, flag, <<>>, TRUE, e1 \o <<Event("panic", fail)>>)
        ELSE IF fail = "transcript_data"
             THEN HandlerResult(pool3, flag, send_spdm_error("SpdmErrorInvalidRequest"), FALSE,
                                e2 \o error)
        ELSE IF fail = "hmac"
             THEN HandlerResult(torn, flag, send_spdm_error("SpdmErrorInvalidRequest"), FALSE,
                                e3 \o <<Event("teardown", via)>> \o error)
        ELSE IF ~k4.ok
             THEN HandlerResult(torn, flag, send_spdm_error("SpdmErrorInvalidRequest"), FALSE,
                                e4 \o <<Event("teardown", via)>> \o error)
        ELSE IF fail = "send"
             THEN HandlerResult(pool5, flag, <<>>, FALSE,
                                e5 \o <<Event("set_session_state", via2)>>)
        ELSE HandlerResult(pool5, flag,
                           send_message("SpdmResponseKeyExchangeRsp",
                                        Payload(patched, measurement_summary_hash_field(flag))),
                           FALSE,
                           e5 \o <<Event("send_message", patched),
                                   Event("set_session_state", via2)>>)

handle_spdm_key_exchange(pool, flag, req, fail) ==
    IF ~req.decodable THEN key_exchange_decode_fail(pool, flag)
    ELSE
    LET flag1 == summary_hash_requested(req.hash_type)
        send_buffer == key_exchange_rsp_encode
        used == BufLen(send_buffer)
        temp_used == key_exchange_temp_used(used)
        k1 == append_message(ManagedBufferDefault, "request", req.len)
        k2 == append_message_slice(k1, Slice(send_buffer, temp_used))
        k3 == append_message(k2, "signature", AsymSize)
        e0 == <<Event("generate_key_pair", "dhe"), Event("compute_final_key", "dhe")>>
        e1 == e0 \o <<Event("append_message", k1.buf)>>
        e2 == e1 \o <<Event("append_message", k2.buf)>>
        e3 == e2 \o <<Event("sign", k2.buf)>>
        e4 == e3 \o <<Event("append_message", k3.buf)>>
        e5 == e4 \o <<Event("calc_rsp_transcript_hash", k3.buf)>>
        slot == get_next_avaiable_session(pool)
        session_id == make_session_id(req.req_session_id, KEY_EXCHANGE_RSP_SESSION_ID)
    IN  IF fail = "generate_key_pair"
             THEN HandlerResult(pool, flag1, <<>>, TRUE, <<Event("panic", fail)>>)
        ELSE IF fail = "compute_final_key"
             THEN HandlerResult(pool, flag1, <<>>, TRUE,
                                <<Event("generate_key_pair", "dhe"), Event("panic", fail)>>)
        ELSE IF ~k1.ok THEN key_exchange_early_error(pool, flag1, e0)
        ELSE IF ~k2.ok THEN key_exchange_early_error(pool, flag1, e1)
        ELSE IF fail = "sign" THEN key_exchange_early_error(pool, flag1, e2)
        ELSE IF ~k3.ok THEN key_exchange_early_error(pool, flag1, e3)
        ELSE IF fail = "th1" THEN key_exchange_early_error(pool, flag1, e4)
        ELSE IF slot = 0 THEN key_exchange_no_session(pool, flag1, e5)
        ELSE key_exchange_create_session(pool, flag1, slot, session_id, k3, fail, e5)

(***************************************************************************)
(* handle_spdm_psk_exchange                                                *)
(***************************************************************************)
\* A PSK response laid out with a signature region before verify_data.
psk_exchange_rsp_encode_signed ==
    << Segment("response_prefix", PskRspPrefixLen),
       Segment("signature_0xbb", AsymSize),
       Segment("verify_data_0xcc", HashSize) >>

\* response.spdm_encode into send_buffer: the fields up to opaque, then the
\* verify_data region filled with 0xcc.
psk_exchange_rsp_encode ==
    << Segment("response_prefix", PskRspPrefixLen),
       Segment("verify_data_0xcc", HashSize) >>

\* A prefix that runs over the verify_data region.
psk_exchange_temp_used_whole(used) == used

\* temp_used = used - base_hash_size
psk_exchange_temp_used(used) == used - HashSize

psk_exchange_decode_fail(pool, flag) ==
    HandlerResult(pool, flag, send_spdm_error("SpdmErrorInvalidRequest"), FALSE,
                  <<Event("send_spdm_error", "SpdmErrorInvalidRequest")>>)

psk_exchange_no_session(pool, flag, done) ==
    HandlerResult(pool, flag, send_spdm_error("SpdmErrorInvalidRequest"), FALSE,
                  done \o <<Event("send_spdm_error", "SpdmErrorInvalidRequest")>>)

psk_exchange_early_error(pool, flag, done) ==
    HandlerResult(pool, flag, send_spdm_error("SpdmErrorInvalidRequest"), FALSE,
                  done \o <<Event("send_spdm_error", "SpdmErrorInvalidRequest")>>)

psk_exchange_create_session(pool, flag, slot, session_id, message_k, fail, done) ==
    LET send_buffer == psk_exchange_rsp_encode
        used  == BufLen(send_buffer)
        pool1 == [pool EXCEPT ![slot] = [setup(@, session_id) EXCEPT !.use_psk = TRUE]]
        pool2 == [pool1 EXCEPT ![slot].secret = "psk"]
        pool3 == [pool2 EXCEPT ![slot].secret = "handshake"]
        via   == get_session_via_id(pool3, session_id)
        k3    == append_message(message_k, "hmac", HashSize)
        torn  == [pool3 EXCEPT ![via] = teardown(@)]
        pool4 == [pool3 EXCEPT ![via].message_k = k3.buf]
        patched == copy_from_slice(send_buffer, used - HashSize, used,
                                   <<Segment("hmac", HashSize)>>)
        via2  == get_session_via_id(pool4, session_id)
        pool5 == [pool4 EXCEPT ![via2].session_state = "Handshaking"]
        e1 == done \o <<Event("setup", slot)>>
        e2 == e1 \o <<Event("generate_handshake_secret", slot)>>
        e3 == e2 \o <<Event("calc_rsp_transcript_data", message_k.buf)>>
        e4 == e3 \o <<Event("generate_hmac", message_k.buf)>>
        e5 == e4 \o <<Event("append_message", k3.buf), Event("store_message_k", via)>>
        error == <<Event("send_spdm_error", "SpdmErrorInvalidRequest")>>
    IN  IF fail = "setup" THEN HandlerResult(pool, flag, <<>>, TRUE, done \o <<Event("panic", fail)>>)
        ELSE IF fail = "handshake_secret"
             THEN HandlerResult(pool2, flag, <<>>, TRUE, e1 \o <<Event("panic", fail)>>)
        ELSE IF fail = "transcript_data"
             THEN HandlerResult(pool3, flag, send_spdm_error("SpdmErrorInvalidRequest"), FALSE,
                                e2 \o error)
        ELSE IF fail = "hmac"
             THEN HandlerResult(torn, flag, send_spdm_error("SpdmErrorInvalidRequest"), FALSE,
                                e3 \o <<Event("teardown", via)>> \o error)
        ELSE IF ~k3.ok
             THEN HandlerResult(torn, flag, send_spdm_error("SpdmErrorInvalidRequest"), FALSE,
                                e4 \o <<Event("teardown", via)>> \o error)
        ELSE IF fail = "send"
             THEN HandlerResult(pool5, flag, <<>>, FALSE,
                                e5 \o <<Event("set_session_state", via2)>>)
        ELSE HandlerResult(pool5, flag,
                           send_message("SpdmResponsePskExchangeRsp",
                                        Payload(patched, measurement_summary_hash_field(flag))),
                           FALSE,
                           e5 \o <<Event("send_message", patched),
                                   Event("set_session_state", via2)>>)

handle_spdm_psk_exchange(pool, flag, req, fail) ==
    IF ~req.decodable THEN psk_exchange_decode_fail(pool, flag)
    ELSE
    LET flag1 == summary_hash_requested(req.hash_type)
        send_buffer == psk_exchange_rsp_encode
        used == BufLen(send_buffer)
        temp_used == psk_exchange_temp_used(used)
        k1 == append_message(ManagedBufferDefault, "request", req.len)
        k2 == append_message_slice(k1, Slice(send_buffer, temp_used))
        e1 == <<Event("append_message", k1.buf)>>
        e2 == e1 \o <<Event("append_message", k2.buf)>>
        e3 == e2 \o <<Event("calc_rsp_transcript_hash", k2.buf)>>
        slot == get_next_avaiable_session(pool)
        session_id == make_session_id(req.req_session_id, PSK_EXCHANGE_RSP_SESSION_ID)
    IN  IF ~k1.ok THEN psk_exchange_early_error(pool, flag1, <<>>)
        ELSE IF ~k2.ok THEN psk_exchange_early_error(pool, flag1, e1)
        ELSE IF fail = "th1" THEN psk_exchange_early_error(pool, flag1, e2)
        ELSE IF slot = 0 THEN psk_exchange_no_session(pool, flag1, e3)
        ELSE psk_exchange_create_session(pool, flag1, slot, session_id, k2, fail, e3)

(***************************************************************************)
(* The handlers of the other requests.  The negotiation and attestation    *)
(* handlers answer with their response and leave the session pool alone;   *)
(* Finish / PskFinish move a Handshaking session to Established;           *)
(* EndSession tears the session down.                                      *)
(***************************************************************************)
ResponseOf(code) ==
    CASE code = "SpdmRequestGetVersion"          -> "SpdmResponseVersion"
      [] code = "SpdmRequestGetCapabilities"     -> "SpdmResponseCapabilities"
      [] code = "SpdmRequestNegotiateAlgorithms" -> "SpdmResponseAlgorithms"
      [] code = "SpdmRequestGetDigests"          -> "SpdmResponseDigests"
      [] code = "SpdmRequestGetCertificate"      -> "SpdmResponseCertificate"
      [] code = "SpdmRequestChallenge"           -> "SpdmResponseChallengeAuth"
      [] code = "SpdmRequestGetMeasurements"     -> "SpdmResponseMeasurements"
      [] code = "SpdmRequestHeartbeat"           -> "SpdmResponseHeartbeatAck"
      [] code = "SpdmRequestKeyUpdate"           -> "SpdmResponseKeyUpdateAck"
      [] code = "SpdmRequestEndSession"          -> "SpdmResponseEndSessionAck"
      [] code = "SpdmRequestFinish"              -> "SpdmResponseFinishRsp"
      [] code = "SpdmRequestPskFinish"           -> "SpdmResponsePskFinishRsp"

\* The steps of the negotiation and the handler that completes each.
NegotiationSteps == {"version", "capabilities", "algorithms"}

NegotiationStepOf(handler) ==
    CASE handler = "handle_spdm_version"    -> "version"
      [] handler = "handle_spdm_capability" -> "capabilities"
      [] handler = "handle_spdm_algorithm"  -> "algorithms"

\* What must have been negotiated before a handler may answer.
negotiation_prerequisite(handler) ==
    CASE handler = "handle_spdm_version"    -> {}
      [] handler = "handle_spdm_capability" -> {"version"}
      [] handler = "handle_spdm_algorithm"  -> {"version", "capabilities"}
      [] OTHER                              -> NegotiationSteps

handle_spdm_unsecured_other(pool, flag, info, handler, code, req) ==
    IF ~req.decodable
    THEN HandlerResult(pool, flag, send_spdm_error("SpdmErrorInvalidRequest"), FALSE,
                       <<Event("send_spdm_error", "SpdmErrorInvalidRequest")>>)
    ELSE IF ~(negotiation_prerequisite(handler) \subseteq info)
    THEN HandlerResult(pool, flag, send_spdm_error("SpdmErrorUnexpectedRequest"), FALSE,
                       <<Event("send_spdm_error", "SpdmErrorUnexpectedRequest")>>)
    ELSE HandlerResult(pool, flag, send_message(ResponseOf(code), NoPayload), FALSE,
                       <<Event("send_message", ResponseOf(code))>>)

handle_spdm_finish(pool, flag, session_id, use_psk, req) ==
    LET via == get_session_via_id(pool, session_id)
        response == IF use_psk THEN "SpdmResponsePskFinishRsp" ELSE "SpdmResponseFinishRsp"
    IN  IF /\ req.decodable
           /\ pool[via].session_state = "Handshaking"
           /\ pool[via].use_psk = use_psk
        THEN HandlerResult([pool EXCEPT ![via].session_state = "Established",
                                        ![via].secret = "master"],
                           flag, send_secured_message(response), FALSE,
                           <<Event("send_secured_message", response)>>)
        ELSE HandlerResult(pool, flag, send_spdm_error("SpdmErrorInvalidRequest"), FALSE,
                           <<Event("send_spdm_error", "SpdmErrorInvalidRequest")>>)

handle_spdm_secured_other(pool, flag, session_id, code, req) ==
    IF req.decodable
    THEN HandlerResult(pool, flag, send_secured_message(ResponseOf(code)), FALSE,
                       <<Event("send_secured_message", ResponseOf(code))>>)
    ELSE HandlerResult(pool, flag, send_spdm_error("SpdmErrorInvalidRequest"), FALSE,
                       <<Event("send_spdm_error", "SpdmErrorInvalidRequest")>>)

handle_spdm_end_session(pool, flag, session_id, req) ==
    LET via == get_session_via_id(pool, session_id)
    IN  IF req.decodable
        THEN HandlerResult([pool EXCEPT ![via] = teardown(@)], flag,
                           send_secured_message("SpdmResponseEndSessionAck"), FALSE,
                           <<Event("teardown", via),
                             Event("send_secured_message", "SpdmResponseEndSessionAck")>>)
        ELSE HandlerResult(pool, flag, send_spdm_error("SpdmErrorInvalidRequest"), FALSE,
                           <<Event("send_spdm_error", "SpdmErrorInvalidRequest")>>)

(***************************************************************************)
(* The two dispatch tables: the handler a code runs, "none" for an arm     *)
(* that evaluates to false.                                                *)
(***************************************************************************)
\* An unsecured table that also routes Heartbeat.
dispatch_message_handler_heartbeat(code) ==
    CASE code = "SpdmRequestGetVersion"          -> "handle_spdm_version"
      [] code = "SpdmRequestGetCapabilities"     -> "handle_spdm_capability"
      [] code = "SpdmRequestNegotiateAlgorithms" -> "handle_spdm_algorithm"
      [] code = "SpdmRequestGetDigests"          -> "handle_spdm_digest"
      [] code = "SpdmRequestGetCertificate"      -> "handle_spdm_certificate"
      [] code = "SpdmRequestChallenge"           -> "handle_spdm_challenge"
      [] code = "SpdmRequestGetMeasurements"     -> "handle_spdm_measurement"
      [] code = "SpdmRequestKeyExchange"         -> "handle_spdm_key_exchange"
      [] code = "SpdmRequestPskExchange"         -> "handle_spdm_psk_exchange"
      [] code = "SpdmRequestHeartbeat"           -> "handle_spdm_heartbeat"
      [] OTHER                                   -> "none"

dispatch_message_handler(code) ==
    CASE code = "SpdmRequestGetVersion"          -> "handle_spdm_version"
      [] code = "SpdmRequestGetCapabilities"     -> "handle_spdm_capability"
      [] code = "SpdmRequestNegotiateAlgorithms" -> "handle_spdm_algorithm"
      [] code = "SpdmRequestGetDigests"          -> "handle_spdm_digest"
      [] code = "SpdmRequestGetCertificate"      -> "handle_spdm_certificate"
      [] code = "SpdmRequestChallenge"           -> "handle_spdm_challenge"
      [] code = "SpdmRequestGetMeasurements"     -> "handle_spdm_measurement"
      [] code = "SpdmRequestKeyExchange"         -> "handle_spdm_key_exchange"
      [] code = "SpdmRequestFinish"              -> "none"
      [] code = "SpdmRequestPskExchange"         -> "handle_spdm_psk_exchange"
      [] code = "SpdmRequestPskFinish"           -> "none"
      [] code = "SpdmRequestHeartbeat"           -> "none"
      [] code = "SpdmRequestKeyUpdate"           -> "none"
      [] code = "SpdmRequestEndSession"          -> "none"
      [] code \in ResponseCodes                  -> "none"
      [] code = "Unknown"                        -> "none"

dispatch_secured_message_handler(code) ==
    CASE code = "SpdmRequestGetVersion"          -> "none"
      [] code = "SpdmRequestGetCapabilities"     -> "none"
      [] code = "SpdmRequestNegotiateAlgorithms" -> "none"
      [] code = "SpdmRequestGetDigests"          -> "none"
      [] code = "SpdmRequestGetCertificate"      -> "none"
      [] code = "SpdmRequestChallenge"           -> "none"
      [] code = "SpdmRequestGetMeasurements"     -> "none"
      [] code = "SpdmRequestKeyExchange"         -> "none"
      [] code = "SpdmRequestFinish"              -> "handle_spdm_finish"
      [] code = "SpdmRequestPskExchange"         -> "none"
      [] code = "SpdmRequestPskFinish"           -> "handle_spdm_psk_finish"
      [] code = "SpdmRequestHeartbeat"           -> "handle_spdm_heartbeat"
      [] code = "SpdmRequestKeyUpdate"           -> "handle_spdm_key_update"
      [] code = "SpdmRequestEndSession"          -> "handle_spdm_end_session"
      [] code \in ResponseCodes                  -> "none"
      [] code = "Unknown"                        -> "none"

\* The body of the handler a dispatcher calls.
RunHandler(handler, pool, flag, info, session_id, code, req, fail) ==
    CASE handler = "handle_spdm_key_exchange" -> handle_spdm_key_exchange(pool, flag, req, fail)
      [] handler = "handle_spdm_psk_exchange" -> handle_spdm_psk_exchange(pool, flag, req, fail)
      [] handler = "handle_spdm_finish"       -> handle_spdm_finish(pool, flag, session_id, FALSE, req)
      [] handler = "handle_spdm_psk_finish"   -> handle_spdm_finish(pool, flag, session_id, TRUE, req)
      [] handler = "handle_spdm_end_session"  -> handle_spdm_end_session(pool, flag, session_id, req)
      [] handler \in {"handle_spdm_heartbeat", "handle_spdm_key_update"}
                                              -> handle_spdm_secured_other(pool, flag, session_id, code, req)
      [] OTHER                                -> handle_spdm_unsecured_other(pool, flag, info, handler, code, req)

\* What a dispatcher leaves behind: the handlers it ran, the handler's result, its bool.
DispatchResult(handlers, res, ret) == [handlers |-> handlers, res |-> res, ret |-> ret]

\* dispatch_message: header read, then the match on request_response_code.
dispatch_message(pool, flag, info, header_ok, code, req, fail) ==
    LET handler == dispatch_message_handler(code)
    IN  IF ~header_ok \/ handler = "none"
        THEN DispatchResult(<<>>, HandlerResult(pool, flag, <<>>, FALSE, <<>>), FALSE)
        ELSE DispatchResult(<<handler>>,
                            RunHandler(handler, pool, flag, info, INVALID_SESSION_ID, code, req, fail),
                            TRUE)

\* dispatch_secured_message: the same over the secured table.
dispatch_secured_message(pool, flag, info, session_id, header_ok, code, req, fail) ==
    LET handler == dispatch_secured_message_handler(code)
    IN  IF ~header_ok \/ handler = "none"
        THEN DispatchResult(<<>>, HandlerResult(pool, flag, <<>>, FALSE, <<>>), FALSE)
        ELSE DispatchResult(<<handler>>,
                            RunHandler(handler, pool, flag, info, session_id, code, req, fail),
                            TRUE)

(***************************************************************************)
(* process_message                                                         *)
(***************************************************************************)
\* Session ids a secured frame may carry in its first four bytes.
WireSessionIds ==
    {INVALID_SESSION_ID}
    \cup {make_session_id(r, KEY_EXCHANGE_RSP_SESSION_ID) : r \in ReqSessionIds}
    \cup {make_session_id(r, PSK_EXCHANGE_RSP_SESSION_ID) : r \in ReqSessionIds}

\* SpdmSession::decode_spdm_secured_message: needs the session's keys and a good AEAD tag.
decode_spdm_secured_message(s, aead_ok) == aead_ok /\ s.session_state # "NotStarted"

\* A secured branch that goes on to dispatch when decap_app failed.
secured_message_accepted_no_decap_check(pool, sid_ok, session_id, aead_ok, decap_app_ok) ==
    /\ sid_ok
    /\ get_session_via_id(pool, session_id) # 0
    /\ decode_spdm_secured_message(pool[get_session_via_id(pool, session_id)], aead_ok)

\* The secured branch up to the dispatch: u32::read, get_session_via_id,
\* decode_spdm_secured_message, decap_app; each failure returns Err.
secured_message_accepted(pool, sid_ok, session_id, aead_ok, decap_app_ok) ==
    /\ sid_ok
    /\ get_session_via_id(pool, session_id) # 0
    /\ decode_spdm_secured_message(pool[get_session_via_id(pool, session_id)], aead_ok)
    /\ decap_app_ok

Turn(kind, code, session_id, sid_ok, header_ok, aead_ok, decap_app_ok, req, fail, handlers, sent, result, events) ==
    [ kind |-> kind, code |-> code, session_id |-> session_id, sid_ok |-> sid_ok,
      header_ok |-> header_ok, aead_ok |-> aead_ok, decap_app_ok |-> decap_app_ok,
      req |-> req, fail |-> fail, handlers |-> handlers, sent |-> sent,
      result |-> result, events |-> events ]

ResultOf(d) == IF d.res.panicked THEN "panic" ELSE IF d.ret THEN "Ok(true)" ELSE "Ok(false)"

\* Inputs a run never reads are left at their defaults.
RequestsFor(handler) ==
    IF handler = "none" THEN {NoRequest}
    ELSE IF handler \in {"handle_spdm_key_exchange", "handle_spdm_psk_exchange"}
    THEN {r \in Requests : r.decodable} \cup {NoRequest}
    ELSE {NoRequest, [NoRequest EXCEPT !.decodable = TRUE]}

\* A failure at a step the run never reaches is the run without a failure.
FailsFor(handler, pool, flag, req) ==
    IF handler = "handle_spdm_key_exchange" /\ req.decodable
    THEN {"none"} \cup { f \in Fails : handle_spdm_key_exchange(pool, flag, req, f)
                                        # handle_spdm_key_exchange(pool, flag, req, "none") }
    ELSE IF handler = "handle_spdm_psk_exchange" /\ req.decodable
    THEN {"none"} \cup { f \in Fails : handle_spdm_psk_exchange(pool, flag, req, f)
                                        # handle_spdm_psk_exchange(pool, flag, req, "none") }
    ELSE {"none"}

\* Between two calls of process_message.
Idle ==
    Turn("idle", "Unknown", INVALID_SESSION_ID, TRUE, TRUE, TRUE, TRUE,
         NoRequest, "none", <<>>, <<>>, "none", <<>>)

\* negotiate_info after a dispatch: a negotiation handler that answered with
\* its response has recorded its selections.
negotiate_info_after(info, d) ==
    IF /\ d.handlers # <<>>
       /\ d.handlers[1] \in {"handle_spdm_version", "handle_spdm_capability", "handle_spdm_algorithm"}
       /\ d.res.sent # <<>>
       /\ d.res.sent[1].code # "SpdmResponseError"
    THEN info \cup {NegotiationStepOf(d.handlers[1])}
    ELSE info

\* The Responder after construction.
ResponderInit ==
    /\ session = [i \in Slots |-> FreeSlot]
    /\ need_measurement_summary_hash = FALSE
    /\ negotiate_info = {}
    /\ turn = Idle
    /\ pre = [session |-> [i \in Slots |-> FreeSlot], flag |-> FALSE]

\* receive_message failed: device_io.receive or transport decap returned an error.
ProcessReceiveError ==
    /\ turn.kind = "idle"
    /\ turn' = Turn("receive_error", "Unknown", INVALID_SESSION_ID, TRUE, TRUE, TRUE, TRUE,
                    NoRequest, "none", <<>>, <<>>, "Err", <<>>)
    /\ pre' = [session |-> session, flag |-> need_measurement_summary_hash]
    /\ UNCHANGED <<session, need_measurement_summary_hash, negotiate_info>>
    /\ UNCHANGED outside_responder

\* An unsecured frame: dispatch_message.
ProcessUnsecuredMessage ==
    /\ turn.kind = "idle"
    /\ UNCHANGED outside_responder
    /\ \E header_ok \in BOOLEAN :
       \E code \in (IF header_ok THEN Codes ELSE {"Unknown"}) :
       \E req \in RequestsFor(dispatch_message_handler(code)) :
       \E fail \in FailsFor(dispatch_message_handler(code), session,
                                need_measurement_summary_hash, req) :
          LET d == dispatch_message(session, need_measurement_summary_hash, negotiate_info,
                                    header_ok, code, req, fail)
          IN  /\ session' = d.res.session
              /\ need_measurement_summary_hash' = d.res.flag
              /\ negotiate_info' = negotiate_info_after(negotiate_info, d)
              /\ turn' = Turn("unsecured", code, INVALID_SESSION_ID, TRUE, header_ok,
                              TRUE, TRUE, req, fail, d.handlers, d.res.sent, ResultOf(d),
                              d.res.events)
              /\ pre' = [session |-> session, flag |-> need_measurement_summary_hash]

\* A secured frame: session lookup, decode, decap_app, dispatch_secured_message.
ProcessSecuredMessage ==
    /\ turn.kind = "idle"
    /\ UNCHANGED outside_responder
    /\ \E sid_ok \in BOOLEAN :
       \E session_id \in (IF sid_ok THEN WireSessionIds ELSE {INVALID_SESSION_ID}) :
       \E aead_ok \in (IF sid_ok /\ get_session_via_id(session, session_id) # 0
                       THEN BOOLEAN ELSE {TRUE}) :
       \E decap_app_ok \in (IF secured_message_accepted(session, sid_ok, session_id, aead_ok, TRUE)
                            THEN BOOLEAN ELSE {TRUE}) :
       LET accepted == secured_message_accepted(session, sid_ok, session_id, aead_ok, decap_app_ok)
       IN
       \E header_ok \in (IF accepted THEN BOOLEAN ELSE {TRUE}) :
       \E code \in (IF accepted /\ header_ok THEN Codes ELSE {"Unknown"}) :
       \E req \in (IF accepted THEN RequestsFor(dispatch_secured_message_handler(code))
                               ELSE {NoRequest}) :
          LET d == dispatch_secured_message(session, need_measurement_summary_hash, negotiate_info,
                                            session_id, header_ok, code, req, "none")
          IN  IF accepted
              THEN /\ session' = d.res.session
                   /\ need_measurement_summary_hash' = d.res.flag
                   /\ turn' = Turn("secured", code, session_id, sid_ok, header_ok, aead_ok,
                                   decap_app_ok, req, "none", d.handlers, d.res.sent,
                                   ResultOf(d), d.res.events)
                   /\ pre' = [session |-> session, flag |-> need_measurement_summary_hash]
                   /\ UNCHANGED negotiate_info
              ELSE /\ turn' = Turn("secured", code, session_id, sid_ok, header_ok, aead_ok,
                                   decap_app_ok, req, "none", <<>>, <<>>, "Err", <<>>)
                   /\ pre' = [session |-> session, flag |-> need_measurement_summary_hash]
                   /\ UNCHANGED <<session, need_measurement_summary_hash, negotiate_info>>

\* process_message returns and its caller loops to the next frame; a panic ends the run.
Return ==
    /\ turn.kind # "idle"
    /\ turn.result # "panic"
    /\ turn' = Idle
    /\ pre' = [session |-> session, flag |-> need_measurement_summary_hash]
    /\ UNCHANGED <<session, need_measurement_summary_hash, negotiate_info>>
    /\ UNCHANGED outside_responder

Next ==
    \/ ProcessReceiveError
    \/ ProcessUnsecuredMessage
    \/ ProcessSecuredMessage
    \/ Return

(***************************************************************************)
(* The session id expression of the two exchange handlers, evaluated for   *)
(* every 16-bit req_session_id.                                            *)
(***************************************************************************)
U16 == 0..65535

\* No evaluation yet.
NoIdCall == [handler |-> "none", req_session_id |-> 0, rsp_session_id |-> 0,
             session_id |-> INVALID_SESSION_ID]

SessionIdIdle == id_call = NoIdCall

\* let session_id = ... in handle_spdm_key_exchange
KeyExchangeSessionId ==
    /\ id_call.handler = "none"
    /\ \E req_session_id \in U16 :
          id_call' = [ handler |-> "handle_spdm_key_exchange",
                       req_session_id |-> req_session_id,
                       rsp_session_id |-> KEY_EXCHANGE_RSP_SESSION_ID,
                       session_id |-> make_session_id(req_session_id,
                                                      KEY_EXCHANGE_RSP_SESSION_ID) ]
    /\ UNCHANGED outside_session_id

\* let session_id = ... in handle_spdm_psk_exchange
PskExchangeSessionId ==
    /\ id_call.handler = "none"
    /\ \E req_session_id \in U16 :
          id_call' = [ handler |-> "handle_spdm_psk_exchange",
                       req_session_id |-> req_session_id,
                       rsp_session_id |-> PSK_EXCHANGE_RSP_SESSION_ID,
                       session_id |-> make_session_id(req_session_id,
                                                      PSK_EXCHANGE_RSP_SESSION_ID) ]
    /\ UNCHANGED outside_session_id

SessionIdNext == KeyExchangeSessionId \/ PskExchangeSessionId

(***************************************************************************)
(* The crypto registry: eight once-initialized cells, each with a          *)
(* register function and lookups that install DEFAULT on first use.        *)
(***************************************************************************)
MaxRegistryCalls == 3   \* calls on the registry in one run

Entries ==
    { "hash", "hmac", "aead", "asym_sign", "asym_verify", "dhe",
      "cert_operation", "hkdf" }

\* Providers an application may pass to register.
Contexts == {"context_a", "context_b"}

NoRegistryCall ==
    [ entry |-> "none", op |-> "none", context |-> "none", ret |-> FALSE,
      used |-> "none", before |-> "uninit", registered_before |-> FALSE,
      looked_up_before |-> FALSE ]

RegistryUninit ==
    /\ registry = [e \in Entries |-> "uninit"]
    /\ registry_history = [e \in Entries |-> [registered |-> FALSE, looked_up |-> FALSE]]
    /\ registry_call = NoRegistryCall
    /\ registry_calls = 0

\* OnceCell::try_init_once(|| context): Err(AlreadyInit) when the cell is initialized.
try_init_once(cell, context) ==
    IF cell = "uninit" THEN [cell |-> context, ok |-> TRUE]
                       ELSE [cell |-> cell, ok |-> FALSE]

\* OnceCell::try_get_or_init(|| context): Ok(&value), initializing the cell when it is not.
try_get_or_init(cell, context) ==
    IF cell = "uninit" THEN [cell |-> context, ok |-> TRUE]
                       ELSE [cell |-> cell, ok |-> TRUE]

\* <entry>::register(context) -> bool
register(entry, cell, context) ==
    IF entry = "asym_verify"
    THEN try_get_or_init(cell, context)
    ELSE try_init_once(cell, context)

\* CRYPTO_<ENTRY>.try_get_or_init(|| DEFAULT) in every function that uses the provider.
lookup(entry, cell) == try_get_or_init(cell, "DEFAULT")

Register ==
    /\ registry_calls < MaxRegistryCalls
    /\ \E entry \in Entries : \E context \in Contexts :
          LET r == register(entry, registry[entry], context)
          IN  /\ registry' = [registry EXCEPT ![entry] = r.cell]
              /\ registry_history' = [registry_history EXCEPT ![entry].registered = TRUE]
              /\ registry_call' =
                    [ entry |-> entry, op |-> "register", context |-> context,
                      ret |-> r.ok, used |-> "none", before |-> registry[entry],
                      registered_before |-> registry_history[entry].registered,
                      looked_up_before |-> registry_history[entry].looked_up ]
    /\ registry_calls' = registry_calls + 1
    /\ UNCHANGED outside_registry

Lookup ==
    /\ registry_calls < MaxRegistryCalls
    /\ \E entry \in Entries :
          LET r == lookup(entry, registry[entry])
          IN  /\ registry' = [registry EXCEPT ![entry] = r.cell]
              /\ registry_history' = [registry_history EXCEPT ![entry].looked_up = TRUE]
              /\ registry_call' =
                    [ entry |-> entry, op |-> "lookup", context |-> "none",
                      ret |-> r.ok, used |-> r.cell, before |-> registry[entry],
                      registered_before |-> registry_history[entry].registered,
                      looked_up_before |-> registry_history[entry].looked_up ]
    /\ registry_calls' = registry_calls + 1
    /\ UNCHANGED outside_registry

RegistryNext == Register \/ Lookup

(***************************************************************************)
(* The registry under concurrency: two threads call <entry>::register with *)
(* different providers while a third thread uses the provider.  One action *)
(* is one atomic step on the cell's state word: the compare-and-swap that  *)
(* claims an uninitialized cell, and the store that publishes the value    *)
(* after the closure ran.  A thread that finds the cell claimed by another *)
(* gets Err(WouldBlock) from both try_ functions.                          *)
(***************************************************************************)
Threads == {1, 2}

\* The provider each thread passes to register.
ContextOf(t) == IF t = 1 THEN "context_a" ELSE "context_b"

RaceInit ==
    /\ once_cell = [entry |-> "none", state |-> "uninit", value |-> "none"]
    /\ callers = [t \in Threads |-> [pc |-> "idle", context |-> ContextOf(t), ret |-> FALSE]]
    /\ reader = [pc |-> "idle", used |-> "none", after_registers |-> FALSE]

\* The threads are started on one of the eight cells.
RaceOn(entry) ==
    /\ once_cell.entry = "none"
    /\ once_cell' = [once_cell EXCEPT !.entry = entry]
    /\ callers' = [t \in Threads |-> [callers[t] EXCEPT !.pc = "start"]]
    /\ reader' = [reader EXCEPT !.pc = "start"]
    /\ UNCHANGED outside_race

\* Entry of try_init_once: what the caller gets without running its closure,
\* or "claimed" when its compare-and-swap took the uninitialized cell.
try_init_once_begin(cell) ==
    CASE cell.state = "uninit" -> "claimed"
      [] cell.state = "initializing" -> "Err(WouldBlock)"
      [] cell.state = "ready" -> "Err(AlreadyInit)"

\* Entry of try_get_or_init.
try_get_or_init_begin(cell) ==
    CASE cell.state = "uninit" -> "claimed"
      [] cell.state = "initializing" -> "Err(WouldBlock)"
      [] cell.state = "ready" -> "Ok"

\* Entry of <entry>::register on the cell.
register_begin(cell) ==
    IF cell.entry = "asym_verify"
    THEN try_get_or_init_begin(cell)
    ELSE try_init_once_begin(cell)

\* .is_ok() of a call that returned without running its closure.
is_ok(result) == result = "Ok"

\* A thread enters register.
RegisterBegin(t) ==
    /\ callers[t].pc = "start"
    /\ LET r == register_begin(once_cell)
       IN  IF r = "claimed"
           THEN /\ once_cell' = [once_cell EXCEPT !.state = "initializing"]
                /\ callers' = [callers EXCEPT ![t].pc = "closure"]
           ELSE /\ callers' = [callers EXCEPT ![t].pc = "returned", ![t].ret = is_ok(r)]
                /\ UNCHANGED once_cell
    /\ UNCHANGED reader
    /\ UNCHANGED outside_race

\* The thread that claimed the cell stores its provider and returns true.
RegisterFinish(t) ==
    /\ callers[t].pc = "closure"
    /\ once_cell' = [once_cell EXCEPT !.state = "ready", !.value = callers[t].context]
    /\ callers' = [callers EXCEPT ![t].pc = "returned", ![t].ret = TRUE]
    /\ UNCHANGED reader
    /\ UNCHANGED outside_race

\* A thread enters a function that uses the provider: try_get_or_init(|| DEFAULT).
LookupBegin ==
    /\ reader.pc = "start"
    /\ LET r == try_get_or_init_begin(once_cell)
           after == \A t \in Threads : callers[t].pc = "returned"
       IN  IF r = "claimed"
           THEN /\ once_cell' = [once_cell EXCEPT !.state = "initializing"]
                /\ reader' = [pc |-> "closure", used |-> "none", after_registers |-> after]
           ELSE /\ reader' =
                      [ pc |-> "returned",
                        used |-> IF is_ok(r) THEN once_cell.value ELSE r,
                        after_registers |-> after ]
                /\ UNCHANGED once_cell
    /\ UNCHANGED callers
    /\ UNCHANGED outside_race

\* The reader that claimed the cell installs DEFAULT and uses it.
LookupFinish ==
    /\ reader.pc = "closure"
    /\ once_cell' = [once_cell EXCEPT !.state = "ready", !.value = "DEFAULT"]
    /\ reader' = [reader EXCEPT !.pc = "returned", !.used = "DEFAULT"]
    /\ UNCHANGED callers
    /\ UNCHANGED outside_race

\* The reader comes back for its next use of the provider.
LookupAgain ==
    /\ reader.pc = "returned"
    /\ reader' = [pc |-> "start", used |-> "none", after_registers |-> FALSE]
    /\ UNCHANGED <<once_cell, callers>>
    /\ UNCHANGED outside_race

RaceNext ==
    \/ \E entry \in Entries : RaceOn(entry)
    \/ \E t \in Threads : RegisterBegin(t)
    \/ \E t \in Threads : RegisterFinish(t)
    \/ LookupBegin
    \/ LookupFinish
    \/ LookupAgain

(***************************************************************************)
(* The byte reader and writer of the codec and the decoder of the error    *)
(* response payload.  A Reader is the buffer and a cursor; a read returns  *)
(* [ok, value, r], ok = FALSE standing for None.  A `let` of the source is *)
(* Bind: the bound expression is evaluated once, then the rest runs on its *)
(* value.                                                                  *)
(***************************************************************************)
Bytes == 0..255

\* No call into the codec has been made.
CodecIdle == codec_call = [op |-> "none"]

\* let x = e; Body(x)
Bind(e, Body(_)) == CHOOSE v \in { Body(x) : x \in {e} } : TRUE

Reader_init(bytes) == [buf |-> bytes, offs |-> 0]

\* Reader::left
left(r) == Len(r.buf) - r.offs

\* Option<T> together with the reader as the call left it.
Some(value, r) == [ok |-> TRUE, value |-> value, r |-> r]
None(r) == [ok |-> FALSE, value |-> "None", r |-> r]

\* A decoder that panicked instead of returning.
Panic(r) == [ok |-> FALSE, value |-> "panic", r |-> r]

\* u8::read
u8_read(r) ==
    Bind(r, LAMBDA x :
        IF left(x) < 1 THEN None(x)
        ELSE Some(x.buf[x.offs + 1], [x EXCEPT !.offs = x.offs + 1]))

\* Iterator::take over len entries
take(len, n) == IF n < len THEN n ELSE len

\* Reads up to n bytes, stopping at the first None: the bytes read and the reader.
read_up_to(r, n) ==
    Bind(r, LAMBDA x :
    Bind(take(left(x), n), LAMBDA k :
        [ data |-> SubSeq(x.buf, x.offs + 1, x.offs + k),
          r |-> [x EXCEPT !.offs = x.offs + k] ]))

\* Reads exactly n bytes, each with `?`.
read_exact(r, n) ==
    Bind(read_up_to(r, n), LAMBDA d :
        IF Len(d.data) < n THEN None(d.r) ELSE Some(d.data, d.r))

\* The variants of SpdmErrorCode and their values.
SpdmErrorCodeValues ==
    [ SpdmErrorInvalidRequest |-> 1, SpdmErrorInvalidSession |-> 2, SpdmErrorBusy |-> 3,
      SpdmErrorUnexpectedRequest |-> 4, SpdmErrorUnspecified |-> 5,
      SpdmErrorDecryptError |-> 6, SpdmErrorUnsupportedRequest |-> 7,
      SpdmErrorRequestInFlight |-> 8, SpdmErrorInvalidResponseCode |-> 9,
      SpdmErrorSessionLimitExceeded |-> 10, SpdmErrorMajorVersionMismatch |-> 65,
      SpdmErrorResponseNotReady |-> 66, SpdmErrorRequestResynch |-> 67,
      SpdmErrorVendorDefined |-> 255 ]

\* From<u8> for SpdmErrorCode: the variant with that value, Unknown(x) when there is none.
SpdmErrorCode_from(x) ==
    IF \E v \in DOMAIN SpdmErrorCodeValues : SpdmErrorCodeValues[v] = x
    THEN [variant |-> CHOOSE v \in DOMAIN SpdmErrorCodeValues : SpdmErrorCodeValues[v] = x,
          unknown |-> 0]
    ELSE [variant |-> "Unknown", unknown |-> x]

\* SpdmErrorCode::read
SpdmErrorCode_read(r) ==
    Bind(u8_read(r), LAMBDA b :
        IF b.ok THEN Some(SpdmErrorCode_from(b.value), b.r) ELSE b)

VendorExtDataLen == 32   \* data: [u8; 32] of SpdmErrorResponseVendorExtData

\* SpdmErrorResponseNotReadyExtData::spdm_read
SpdmErrorResponseNotReadyExtData_spdm_read(r) ==
    Bind(read_exact(r, 4), LAMBDA d :
        IF ~d.ok THEN d
        ELSE Some([kind |-> "SpdmErrorExtDataNotReady", data |-> d.value], d.r))

\* SpdmErrorResponseVendorExtData::spdm_read
SpdmErrorResponseVendorExtData_spdm_read(r) ==
    Bind(read_up_to(r, VendorExtDataLen), LAMBDA d :
        Some([kind |-> "SpdmErrorExtDataVendorDefined", data |-> d.data], d.r))

\* SpdmErrorResponseNoneExtData::spdm_read
SpdmErrorResponseNoneExtData_spdm_read(r) ==
    Some([kind |-> "SpdmErrorExtDataNone", data |-> <<>>], r)

extended_data_read_no_vendor(error_code, r) ==
    IF error_code.variant = "SpdmErrorResponseNotReady"
    THEN SpdmErrorResponseNotReadyExtData_spdm_read(r)
    ELSE SpdmErrorResponseNoneExtData_spdm_read(r)

\* The match on error_code in SpdmErrorResponsePayload::spdm_read.
extended_data_read(error_code, r) ==
    CASE error_code.variant = "SpdmErrorResponseNotReady" ->
            SpdmErrorResponseNotReadyExtData_spdm_read(r)
      [] error_code.variant = "SpdmErrorVendorDefined" ->
            SpdmErrorResponseVendorExtData_spdm_read(r)
      [] OTHER -> SpdmErrorResponseNoneExtData_spdm_read(r)

\* SpdmErrorResponsePayload::spdm_read
SpdmErrorResponsePayload_spdm_read(r) ==
    Bind(SpdmErrorCode_read(r), LAMBDA error_code :
        IF ~error_code.ok THEN error_code
        ELSE Bind(u8_read(error_code.r), LAMBDA error_data :
        IF ~error_data.ok THEN error_data
        ELSE Bind(extended_data_read(error_code.value, error_data.r), LAMBDA extended_data :
        IF ~extended_data.ok THEN extended_data
        ELSE Some([ error_code |-> error_code.value, error_data |-> error_data.value,
                    extended_data |-> extended_data.value ], extended_data.r))))

MaxExtLen == 33   \* bytes that follow error_data in a frame

\* The bytes 1, 2, .. n.
Counting(n) == [i \in 1..n |-> i]

\* Error frames as they arrive: the whole frame, or cut after 0 or 1 bytes.
ErrorFrames ==
    { <<>> }
    \cup { <<code>> : code \in Bytes }
    \cup { <<code, error_data>> \o Counting(n) :
              code \in Bytes, error_data \in {0, 255}, n \in 0..MaxExtLen }

\* One call of SpdmErrorResponsePayload::spdm_read on a fresh reader.
ReadErrorFrame ==
    /\ codec_call.op = "none"
    /\ \E bytes \in ErrorFrames :
          codec_call' =
              [ op |-> "SpdmErrorResponsePayload::spdm_read", bytes |-> bytes,
                ret |-> SpdmErrorResponsePayload_spdm_read(Reader_init(bytes)) ]
    /\ UNCHANGED outside_codec

(***************************************************************************)
(* The three structures whose length comes from the negotiated algorithm:  *)
(* SpdmDigestStruct, SpdmSignatureStruct and SpdmDheExchangeStruct.  Their *)
(* codecs are the same code over a different size of the context, so one   *)
(* operator parameterised by the structure stands for the three.           *)
(***************************************************************************)
MaxDataSize == 3   \* SPDM_MAX_HASH_SIZE, SPDM_MAX_ASYM_KEY_SIZE, SPDM_MAX_DHE_KEY_SIZE, scaled

SizedStructs == {"SpdmDigestStruct", "SpdmSignatureStruct", "SpdmDheExchangeStruct"}

\* The sizes a context can hold for the three algorithm families.
SizeContexts ==
    [ hash_size : 0..MaxDataSize, asym_key_size : 0..MaxDataSize, dhe_key_size : 0..MaxDataSize ]

\* context.get_hash_size() / get_asym_key_size() / get_dhe_key_size()
get_size(struct, context) ==
    CASE struct = "SpdmDigestStruct" -> context.hash_size
      [] struct = "SpdmSignatureStruct" -> context.asym_key_size
      [] struct = "SpdmDheExchangeStruct" -> context.dhe_key_size

\* A Writer over a slice of cap bytes; a byte pushed into a full writer is dropped.
Writer_init(cap) == [buf |-> <<>>, cap |-> cap]

\* u8::encode
u8_encode(b, w) ==
    Bind(w, LAMBDA x : IF Len(x.buf) < x.cap THEN [x EXCEPT !.buf = Append(x.buf, b)] ELSE x)

\* for d in data.iter().take(n) { d.encode(bytes) }
RECURSIVE encode_bytes(_, _, _)
encode_bytes(data, n, w) ==
    IF n = 0 \/ data = <<>> THEN w
    ELSE encode_bytes(Tail(data), n - 1, u8_encode(Head(data), w))

\* spdm_encode of the three structures
sized_spdm_encode(self, w) == encode_bytes(self.data, self.data_size, w)

\* [0u8; N] with the first bytes overwritten by data.
ZeroFilled(data, n) == [i \in 1..n |-> IF i <= Len(data) THEN data[i] ELSE 0]

sized_spdm_read_zero_fill(struct, context, r) ==
    Bind(read_up_to(r, take(MaxDataSize, get_size(struct, context))), LAMBDA d :
        Some([ data_size |-> get_size(struct, context),
               data |-> ZeroFilled(d.data, MaxDataSize) ], d.r))

\* spdm_read of the three structures
sized_spdm_read(struct, context, r) ==
    Bind(read_exact(r, take(MaxDataSize, get_size(struct, context))), LAMBDA d :
        IF ~d.ok THEN d
        ELSE Some([ data_size |-> get_size(struct, context),
                    data |-> ZeroFilled(d.value, MaxDataSize) ], d.r))

\* One call of spdm_encode on a structure holding data_size bytes.
EncodeSized ==
    /\ codec_call.op = "none"
    /\ \E struct \in SizedStructs, context \in SizeContexts :
       \E data_size \in 0..MaxDataSize, cap \in 0..(MaxDataSize + 1) :
       \E self \in {[data_size |-> data_size, data |-> Counting(MaxDataSize)]} :
          codec_call' =
              [ op |-> "sized_spdm_encode", struct |-> struct, context |-> context,
                self |-> self, cap |-> cap,
                ret |-> sized_spdm_encode(self, Writer_init(cap)) ]
    /\ UNCHANGED outside_codec

\* One call of spdm_read on a reader with some bytes left.
ReadSized ==
    /\ codec_call.op = "none"
    /\ \E struct \in SizedStructs, context \in SizeContexts, n \in 0..(MaxDataSize + 1) :
          codec_call' =
              [ op |-> "sized_spdm_read", struct |-> struct, context |-> context,
                bytes |-> Counting(n),
                ret |-> sized_spdm_read(struct, context, Reader_init(Counting(n))) ]
    /\ UNCHANGED outside_codec

(***************************************************************************)
(* The measurement record: SpdmMeasurementRecordStructure, its blocks and  *)
(* the DMTF measurement inside each block.  The arrays `record` and        *)
(* `value` are held as their leading entries, as far as the codec looks.   *)
(***************************************************************************)
MaxBlockCount == 2   \* config::MAX_SPDM_MEASUREMENT_BLOCK_COUNT, scaled
MaxValueLen == 2     \* config::MAX_SPDM_MEASUREMENT_VALUE_LEN, scaled

\* An encoder returns [panicked, w]: whether it panicked, and its writer.

\* u16::encode and u24::encode, little-endian
u16_encode(x, w) == u8_encode(x \div 256, u8_encode(x % 256, w))

u24_encode(x, w) == u8_encode(x \div 65536, u16_encode(x % 65536, w))

\* The little-endian value of the bytes.
RECURSIVE le_value(_)
le_value(data) == IF data = <<>> THEN 0 ELSE Head(data) + 256 * le_value(Tail(data))

\* u16::read (n = 2) and u24::read (n = 3)
le_read(r, n) ==
    Bind(read_exact(r, n), LAMBDA d : IF ~d.ok THEN d ELSE Some(le_value(d.value), d.r))

\* SpdmDmtfMeasurementType, by the values the decoder matches on.
MeasurementTypes ==
    << "SpdmDmtfMeasurementRom", "SpdmDmtfMeasurementFirmware",
       "SpdmDmtfMeasurementHardwareConfig", "SpdmDmtfMeasurementFirmwareConfig",
       "SpdmDmtfMeasurementManifest" >>

\* type_value => SpdmDmtfMeasurementType
SpdmDmtfMeasurementType_from(x) ==
    IF x < Len(MeasurementTypes) THEN [variant |-> MeasurementTypes[x + 1], unknown |-> 0]
                                 ELSE [variant |-> "Unknown", unknown |-> x]

\* SpdmDmtfMeasurementType::get_u8
type_get_u8(type) ==
    IF type.variant = "Unknown" THEN type.unknown
    ELSE CHOOSE x \in 0..(Len(MeasurementTypes) - 1) : MeasurementTypes[x + 1] = type.variant

\* representation_value => SpdmDmtfMeasurementRepresentation
SpdmDmtfMeasurementRepresentation_from(x) ==
    CASE x = 0 -> [variant |-> "SpdmDmtfMeasurementDigest", unknown |-> 0]
      [] x = 1 -> [variant |-> "SpdmDmtfMeasurementRawBit", unknown |-> 0]
      [] OTHER -> [variant |-> "Unknown", unknown |-> x]

\* How the crate was built: u8 addition panics on overflow or wraps.
Builds == {"debug", "release"}

\* let final_value = type_value + representation_value
first_byte(self, build) ==
    Bind(type_get_u8(self.type), LAMBDA type_value :
    Bind(type_get_u8(self.type), LAMBDA representation_value :
    Bind(type_value + representation_value, LAMBDA final_value :
        [ panicked |-> final_value > 255 /\ build = "debug", value |-> final_value % 256 ])))

\* SpdmDmtfMeasurementStructure::spdm_encode
SpdmDmtfMeasurementStructure_spdm_encode(self, w, build) ==
    Bind(first_byte(self, build), LAMBDA final_value :
        [ panicked |-> final_value.panicked,
          w |-> IF final_value.panicked THEN w
                ELSE encode_bytes(self.value, self.value_size,
                        u16_encode(self.value_size, u8_encode(final_value.value, w))) ])

\* SpdmDmtfMeasurementStructure::spdm_read
SpdmDmtfMeasurementStructure_spdm_read(r) ==
    Bind(u8_read(r), LAMBDA final_value :
        IF ~final_value.ok THEN final_value
        ELSE Bind(le_read(final_value.r, 2), LAMBDA value_size :
        IF ~value_size.ok THEN value_size
        ELSE Bind(read_exact(value_size.r, take(MaxValueLen, value_size.value)), LAMBDA value :
        IF ~value.ok THEN value
        ELSE Some([ type |-> SpdmDmtfMeasurementType_from(final_value.value % 128),
                    representation |->
                        SpdmDmtfMeasurementRepresentation_from(
                            final_value.value - (final_value.value % 128)),
                    value_size |-> value_size.value, value |-> value.value ], value.r))))

\* SpdmMeasurementBlockStructure::spdm_encode
SpdmMeasurementBlockStructure_spdm_encode(self, w, build) ==
    SpdmDmtfMeasurementStructure_spdm_encode(self.measurement,
        u16_encode(self.measurement_size,
            u8_encode(self.measurement_specification, u8_encode(self.index, w))), build)

\* SpdmMeasurementBlockStructure::spdm_read
SpdmMeasurementBlockStructure_spdm_read(r) ==
    Bind(read_exact(r, 2), LAMBDA head :
        IF ~head.ok THEN head
        ELSE Bind(le_read(head.r, 2), LAMBDA measurement_size :
        IF ~measurement_size.ok THEN measurement_size
        ELSE Bind(SpdmDmtfMeasurementStructure_spdm_read(measurement_size.r), LAMBDA measurement :
        IF ~measurement.ok THEN measurement
        ELSE Some([ index |-> head.value[1],
                    measurement_specification |-> head.value[2],
                    measurement_size |-> measurement_size.value,
                    measurement |-> measurement.value ], measurement.r))))

\* The blocks a loop over record.iter().take(number_of_blocks) visits.
Taken(self) == 1..take(Len(self.record), self.number_of_blocks)

\* d.measurement_size != d.measurement.value_size + 3 for some visited block
size_mismatch(self) ==
    \E i \in Taken(self) :
        self.record[i].measurement_size # (self.record[i].measurement.value_size + 3) % 65536

\* d.measurement.value_size + 3 leaves u16 at a visited block that no
\* mismatching block precedes: a build with overflow checks panics there,
\* the other wraps.
size_overflow(self) ==
    \E i \in Taken(self) :
        /\ self.record[i].measurement.value_size + 3 > 65535
        /\ \A j \in Taken(self) :
              j < i => self.record[j].measurement_size
                          = (self.record[j].measurement.value_size + 3) % 65536

\* calc_length over the first n blocks
RECURSIVE calc_length(_, _)
calc_length(record, n) ==
    IF n = 0 THEN 0 ELSE calc_length(record, n - 1) + record[n].measurement_size + 4

\* The third loop of spdm_encode: the blocks from i on.
RECURSIVE encode_blocks(_, _, _, _)
encode_blocks(self, i, w, build) ==
    IF i \notin Taken(self) THEN [panicked |-> FALSE, w |-> w]
    ELSE Bind(SpdmMeasurementBlockStructure_spdm_encode(self.record[i], w, build), LAMBDA d :
            IF d.panicked THEN d ELSE encode_blocks(self, i + 1, d.w, build))

\* SpdmMeasurementRecordStructure::spdm_encode
SpdmMeasurementRecordStructure_spdm_encode(self, w, build) ==
    IF (size_overflow(self) /\ build = "debug") \/ size_mismatch(self)
    THEN [panicked |-> TRUE, w |-> u8_encode(self.number_of_blocks, w)]
    ELSE encode_blocks(self, 1,
            u24_encode(calc_length(self.record, Len(self.record)),
                       u8_encode(self.number_of_blocks, w)), build)

\* The first loop of spdm_read: up to n blocks, stopping at the first None.
RECURSIVE read_blocks(_, _)
read_blocks(r, n) ==
    IF n = 0 THEN Some(<<>>, r)
    ELSE Bind(SpdmMeasurementBlockStructure_spdm_read(r), LAMBDA d :
            IF ~d.ok THEN d
            ELSE Bind(read_blocks(d.r, n - 1), LAMBDA rest :
                    IF ~rest.ok THEN rest ELSE Some(<<d.value>> \o rest.value, rest.r)))

\* SpdmMeasurementRecordStructure::spdm_read
SpdmMeasurementRecordStructure_spdm_read(r, build) ==
    Bind(u8_read(r), LAMBDA number_of_blocks :
        IF ~number_of_blocks.ok THEN number_of_blocks
        ELSE Bind(le_read(number_of_blocks.r, 3), LAMBDA record_length :
        IF ~record_length.ok THEN record_length
        ELSE Bind(read_blocks(record_length.r, take(MaxBlockCount, number_of_blocks.value)), LAMBDA record :
        IF ~record.ok THEN record
        ELSE Bind([number_of_blocks |-> number_of_blocks.value, record |-> record.value], LAMBDA self :
        IF size_overflow(self) /\ build = "debug" THEN Panic(record.r)
        ELSE IF size_mismatch(self) THEN None(record.r)
        ELSE IF calc_length(self.record, Len(self.record)) # record_length.value
        THEN None(record.r)
        ELSE Some(self, record.r)))))

\* Measurement types a caller may put in a structure; the representations
\* are Digest and RawBit.
TypeInputs ==
    { SpdmDmtfMeasurementType_from(x) : x \in 0..5 } \cup { SpdmDmtfMeasurementType_from(200) }

\* A measurement with value_size bytes of value.
Measurement(type, representation, value_size) ==
    [ type |-> type, representation |-> representation,
      value_size |-> value_size, value |-> Counting(value_size) ]

\* A record of number_of_blocks blocks, as many as the array holds, the block
\* numbered bad with a measurement_size that is one too large.
Record(number_of_blocks, type, representation, value_size, bad) ==
    [ number_of_blocks |-> number_of_blocks,
      record |->
        [ i \in 1..take(MaxBlockCount, number_of_blocks) |->
            LET size == (value_size + i - 1) % (MaxValueLen + 1)
            IN  [ index |-> i, measurement_specification |-> 1,
                  measurement_size |-> size + 3 + (IF i = bad THEN 1 ELSE 0),
                  measurement |-> Measurement(type, representation, size) ] ] ]

\* A writer with room for the largest record.
RecordWriter == Writer_init(4 + (MaxBlockCount + 1) * (8 + MaxValueLen))

\* One call of SpdmDmtfMeasurementStructure::spdm_encode.
EncodeMeasurement ==
    /\ codec_call.op = "none"
    /\ \E type \in TypeInputs, representation \in {SpdmDmtfMeasurementRepresentation_from(x) : x \in 0..1} :
       \E value_size \in 0..MaxValueLen, build \in Builds :
       \E self \in {Measurement(type, representation, value_size)} :
              codec_call' =
                  [ op |-> "SpdmDmtfMeasurementStructure::spdm_encode", self |-> self,
                    build |-> build,
                    ret |-> SpdmDmtfMeasurementStructure_spdm_encode(
                                self, RecordWriter, build) ]
    /\ UNCHANGED outside_codec

\* One call of SpdmMeasurementRecordStructure::spdm_encode, and spdm_read on
\* the bytes it wrote.
EncodeRecord ==
    /\ codec_call.op = "none"
    /\ \E number_of_blocks \in 0..(MaxBlockCount + 1), bad \in 0..MaxBlockCount :
       \E type \in TypeInputs, representation \in {SpdmDmtfMeasurementRepresentation_from(x) : x \in 0..1} :
       \E value_size \in 0..MaxValueLen, build \in Builds :
       \E self \in {Record(number_of_blocks, type, representation, value_size, bad)} :
       \E ret \in {SpdmMeasurementRecordStructure_spdm_encode(
                       self, RecordWriter, build)} :
              codec_call' =
                  [ op |-> "SpdmMeasurementRecordStructure::spdm_encode", self |-> self,
                    build |-> build, ret |-> ret,
                    read |-> IF ret.panicked THEN None(Reader_init(<<>>))
                             ELSE SpdmMeasurementRecordStructure_spdm_read(
                                      Reader_init(ret.w.buf), build) ]
    /\ UNCHANGED outside_codec

\* The bytes of blocks on the wire, the value as far as the array holds it.
RECURSIVE BlocksBytes(_)
BlocksBytes(blocks) ==
    IF blocks = <<>> THEN <<>>
    ELSE LET b == Head(blocks)
         IN  << b.index, 1, b.measurement_size % 256, b.measurement_size \div 256,
                b.final_value, b.value_size % 256, b.value_size \div 256 >>
             \o Counting(take(MaxValueLen, b.value_size)) \o BlocksBytes(Tail(blocks))

\* The bytes of a frame: the count, the 24-bit length and the blocks.
FrameBytes(f) ==
    << f.number_of_blocks, f.record_length % 256, (f.record_length \div 256) % 256,
       f.record_length \div 65536 >> \o BlocksBytes(f.blocks)

\* Frames of number_of_blocks blocks: one block may carry an inconsistent
\* measurement_size, the length field may count all blocks, only those the
\* record array holds, or one byte more.  Then frames of one block whose
\* value_size is at the top of u16.
RecordFrames ==
    { [ number_of_blocks |-> n, record_length |-> l, blocks |-> blocks ] :
        n \in {0}, l \in {0, 1}, blocks \in {<<>>} }
    \cup
    UNION { LET blocks ==
                  [ i \in 1..n |->
                      LET size == (value_size + i - 1) % (MaxValueLen + 1)
                      IN  [ index |-> i, final_value |-> final_value, value_size |-> size,
                            measurement_size |-> size + 3 + (IF i = bad THEN 1 ELSE 0) ] ]
                all == calc_length(blocks, n)
            IN  { [ number_of_blocks |-> n, record_length |-> l, blocks |-> blocks ] :
                    l \in {all, calc_length(blocks, take(MaxBlockCount, n)), all + 1} } :
            n \in 1..(MaxBlockCount + 1), bad \in 0..(MaxBlockCount + 1),
            value_size \in 0..MaxValueLen, final_value \in {0, 1, 129} }
    \cup
    { [ number_of_blocks |-> 1, record_length |-> measurement_size + 4,
        blocks |-> << [ index |-> 1, final_value |-> 0, value_size |-> value_size,
                        measurement_size |-> measurement_size ] >> ] :
        value_size \in 65532..65535, measurement_size \in {0, 1, 2, 65535} }

\* One call of SpdmMeasurementRecordStructure::spdm_read on a frame, whole or
\* cut short by one byte.
ReadRecord ==
    /\ codec_call.op = "none"
    /\ \E frame \in RecordFrames, cut \in 0..1, build \in Builds :
       \E whole \in {FrameBytes(frame)} :
       \E bytes \in {SubSeq(whole, 1, Len(whole) - cut)} :
              codec_call' =
                  [ op |-> "SpdmMeasurementRecordStructure::spdm_read", frame |-> frame,
                    cut |-> cut, bytes |-> bytes, build |-> build,
                    ret |-> SpdmMeasurementRecordStructure_spdm_read(Reader_init(bytes), build) ]
    /\ UNCHANGED outside_codec

(***************************************************************************)
(* Decoders of structures that carry their own count or length: the        *)
(* certificate chain, the VERSION response and the PSK context and hint.   *)
(***************************************************************************)
MaxCertChainDataSize == 2   \* config::MAX_SPDM_CERT_CHAIN_DATA_SIZE, scaled
MaxVersionCount == 2        \* config::MAX_SPDM_VERSION_COUNT, scaled
MaxPskContextSize == 2      \* config::MAX_SPDM_PSK_CONTEXT_SIZE, scaled
MaxPskHintSize == 1         \* config::MAX_SPDM_PSK_HINT_SIZE, scaled

\* length - 4 - root_hash.data_size as u16: below zero a build with overflow
\* checks panics, the other wraps.
cert_chain_data_size(length, root_hash_size, build) ==
    Bind(length - 4 - root_hash_size, LAMBDA d :
        [ panicked |-> d < 0 /\ build = "debug", value |-> (d + 65536) % 65536 ])

\* SpdmCertChain::spdm_read
SpdmCertChain_spdm_read(context, r, build) ==
    Bind(le_read(r, 2), LAMBDA length :
        IF ~length.ok THEN length
        ELSE Bind(le_read(length.r, 2), LAMBDA reserved :
        IF ~reserved.ok THEN reserved
        ELSE Bind(sized_spdm_read("SpdmDigestStruct", context, reserved.r), LAMBDA root_hash :
        IF ~root_hash.ok THEN root_hash
        ELSE Bind(cert_chain_data_size(length.value, root_hash.value.data_size, build), LAMBDA data_size :
        IF data_size.panicked THEN Panic(root_hash.r)
        ELSE Bind(read_exact(root_hash.r, take(MaxCertChainDataSize, data_size.value)), LAMBDA data :
        IF ~data.ok THEN data
        ELSE Some([ root_hash |-> root_hash.value,
                    cert_chain |-> [data_size |-> data_size.value, data |-> data.value] ],
                  data.r))))))

\* The entries of two bytes each that a run of bytes holds.
Pairs(data) == [i \in 1..(Len(data) \div 2) |-> <<data[2 * i - 1], data[2 * i]>>]

\* SpdmVersionResponsePayload::spdm_read: param1, param2, reserved, the count,
\* then SpdmVersionStruct::read for the entries the array holds.
SpdmVersionResponsePayload_spdm_read(r) ==
    Bind(read_exact(r, 3), LAMBDA head :
        IF ~head.ok THEN head
        ELSE Bind(u8_read(head.r), LAMBDA version_number_entry_count :
        IF ~version_number_entry_count.ok THEN version_number_entry_count
        ELSE Bind(read_exact(version_number_entry_count.r,
                             2 * take(MaxVersionCount, version_number_entry_count.value)), LAMBDA versions :
        IF ~versions.ok THEN versions
        ELSE Some([ version_number_entry_count |-> version_number_entry_count.value,
                    versions |-> Pairs(versions.value) ], versions.r))))

PskStructs == {"SpdmPskContextStruct", "SpdmPskHintStruct"}

\* The length of the data array of each structure.
psk_capacity(struct) ==
    IF struct = "SpdmPskContextStruct" THEN MaxPskContextSize ELSE MaxPskHintSize

\* SpdmPskContextStruct::spdm_read, SpdmPskHintStruct::spdm_read
psk_spdm_read(struct, r) ==
    Bind(le_read(r, 2), LAMBDA data_size :
        IF ~data_size.ok THEN data_size
        ELSE Bind(read_exact(data_size.r, take(psk_capacity(struct), data_size.value)), LAMBDA data :
        IF ~data.ok THEN data
        ELSE Some([data_size |-> data_size.value, data |-> data.value], data.r)))

\* One call of SpdmCertChain::spdm_read on a chain with some bytes after its
\* length and reserved fields.
ReadCertChain ==
    /\ codec_call.op = "none"
    /\ \E hash_size \in 0..MaxDataSize, build \in Builds :
       \E length \in 0..(4 + MaxDataSize + MaxCertChainDataSize + 1) :
       \E n \in 0..(MaxDataSize + MaxCertChainDataSize + 1) :
       \E context \in {[hash_size |-> hash_size, asym_key_size |-> 0, dhe_key_size |-> 0]} :
       \E bytes \in {<<length % 256, length \div 256, 0, 0>> \o Counting(n)} :
          codec_call' =
              [ op |-> "SpdmCertChain::spdm_read", context |-> context, build |-> build,
                length |-> length, bytes |-> bytes,
                ret |-> SpdmCertChain_spdm_read(context, Reader_init(bytes), build) ]
    /\ UNCHANGED outside_codec

\* One call of SpdmVersionResponsePayload::spdm_read.
ReadVersionResponse ==
    /\ codec_call.op = "none"
    /\ \E count \in 0..(MaxVersionCount + 1) \cup {255}, n \in 0..(2 * (MaxVersionCount + 1)) :
       \E bytes \in {<<0, 0, 0, count>> \o Counting(n)} :
          codec_call' =
              [ op |-> "SpdmVersionResponsePayload::spdm_read", bytes |-> bytes,
                ret |-> SpdmVersionResponsePayload_spdm_read(Reader_init(bytes)) ]
    /\ UNCHANGED outside_codec

\* One call of spdm_read of a PSK context or hint.
ReadPsk ==
    /\ codec_call.op = "none"
    /\ \E struct \in PskStructs, hi \in {0, 255} :
       \E lo \in 0..(MaxPskContextSize + 1), n \in 0..(MaxPskContextSize + 1) :
       \E bytes \in {<<lo, hi>> \o Counting(n)} :
          codec_call' =
              [ op |-> "psk_spdm_read", struct |-> struct, bytes |-> bytes,
                ret |-> psk_spdm_read(struct, Reader_init(bytes)) ]
    /\ UNCHANGED outside_codec

CodecNext ==
    \/ ReadErrorFrame
    \/ EncodeSized
    \/ ReadSized
    \/ EncodeMeasurement
    \/ EncodeRecord
    \/ ReadRecord
    \/ ReadCertChain
    \/ ReadVersionResponse
    \/ ReadPsk

(***************************************************************************)
(* The Requester's orchestration (requester/context.rs).  A command        *)
(* send_receive_spdm_* is taken by the result it gives and by what it does *)
(* to the Requester's session pool; the orchestration routines are         *)
(* translated statement by statement over those results.                   *)
(***************************************************************************)
SpdmErrors == {"EFAULT", "EINVAL", "EIO"}

Ok(value) == [ok |-> TRUE, value |-> value, err |-> "none"]
Err(e) == [ok |-> FALSE, value |-> <<>>, err |-> e]

\* SpdmResult, the results of a command that returns no value.
SpdmResult == {Ok(<<>>)} \cup { Err(e) : e \in SpdmErrors }

\* Session ids the exchange commands can return, none of them
\* INVALID_SESSION_ID.
RequesterSessionIds == {U32(65534, 65534), U32(65534, 65533), U32(65533, 65534)}

\* SpdmResult<u32>.
SpdmResultU32 == { Ok(id) : id \in RequesterSessionIds } \cup { Err(e) : e \in SpdmErrors }

RequesterInit ==
    /\ requester_session = [i \in Slots |-> FreeSlot]
    /\ requester_call = [op |-> "none"]

Step(name, result) == [sent |-> <<name>>, results |-> <<result>>]

\* What the call has run so far, followed by one more command.
Then(run, name, result) == [sent |-> Append(run.sent, name), results |-> Append(run.results, result)]

Returns(run, ret, pool) == [sent |-> run.sent, results |-> run.results, ret |-> ret, pool |-> pool]

\* init_connection with a failed step that does not return: every command
\* runs and the result is that of the last.
init_connection_keep_going(version, capability, algorithm) ==
    [ sent |-> <<"send_receive_spdm_version", "send_receive_spdm_capability",
                 "send_receive_spdm_algorithm">>,
      results |-> <<version, capability, algorithm>>,
      ret |-> algorithm ]

\* RequesterContext::init_connection; the arguments are what each command
\* returns when it is called.
init_connection(version, capability, algorithm) ==
    LET run1 == Step("send_receive_spdm_version", version)
        run2 == Then(run1, "send_receive_spdm_capability", capability)
        run3 == Then(run2, "send_receive_spdm_algorithm", algorithm)
    IN  IF ~version.ok
        THEN [sent |-> run1.sent, results |-> run1.results, ret |-> version]
        ELSE IF ~capability.ok
        THEN [sent |-> run2.sent, results |-> run2.results, ret |-> capability]
        ELSE [sent |-> run3.sent, results |-> run3.results, ret |-> algorithm]

\* An exchange command: on the peer's answer carrying a session id it takes
\* the first free slot and sets the session up; without a free slot, or on
\* an error, the pool is as it was.
send_receive_exchange(pool, use_psk, reply) ==
    Bind(get_next_avaiable_session(pool), LAMBDA free :
        IF ~reply.ok THEN [ret |-> reply, pool |-> pool]
        ELSE IF free = 0 THEN [ret |-> Err("EINVAL"), pool |-> pool]
        ELSE [ ret |-> reply,
               pool |-> [pool EXCEPT ![free] =
                            [setup(pool[free], reply.value) EXCEPT !.use_psk = use_psk]] ])

send_receive_spdm_key_exchange(pool, reply) == send_receive_exchange(pool, FALSE, reply)

send_receive_spdm_psk_exchange(pool, reply) == send_receive_exchange(pool, TRUE, reply)

\* A finish command: on success the session is Established, on failure the
\* command leaves the pool as it found it.
send_receive_finish(pool, session_id, reply) ==
    Bind(get_session_via_id(pool, session_id), LAMBDA via :
        IF reply.ok /\ via # 0
        THEN [ret |-> reply, pool |-> [pool EXCEPT ![via].session_state = "Established"]]
        ELSE [ret |-> IF reply.ok THEN Err("EINVAL") ELSE reply, pool |-> pool])

send_receive_spdm_finish(pool, session_id, reply) == send_receive_finish(pool, session_id, reply)

send_receive_spdm_psk_finish(pool, session_id, reply) == send_receive_finish(pool, session_id, reply)

\* The EndSession command: on the peer's acknowledgement the session is
\* torn down, on failure the command leaves the pool as it found it.
send_receive_spdm_end_session(pool, session_id, reply) ==
    Bind(get_session_via_id(pool, session_id), LAMBDA via :
        IF reply.ok /\ via # 0
        THEN [ret |-> reply, pool |-> [pool EXCEPT ![via] = teardown(pool[via])]]
        ELSE [ret |-> IF reply.ok THEN Err("EINVAL") ELSE reply, pool |-> pool])

\* start_session whose PSK branch finishes with the Finish command.
start_session_mixed(pool, use_psk, exchange, finish) ==
    Bind(IF use_psk THEN send_receive_spdm_psk_exchange(pool, exchange)
                    ELSE send_receive_spdm_key_exchange(pool, exchange), LAMBDA x :
        Bind(Step(IF use_psk THEN "send_receive_spdm_psk_exchange"
                             ELSE "send_receive_spdm_key_exchange", x.ret), LAMBDA run1 :
            IF x.ret.ok
            THEN Bind(send_receive_spdm_finish(x.pool, x.ret.value, finish), LAMBDA f :
                    Returns(Then(run1, "send_receive_spdm_finish", f.ret),
                            IF f.ret.ok THEN Ok(x.ret.value) ELSE Err("EIO"), f.pool))
            ELSE Returns(run1, Err("EIO"), x.pool)))

\* RequesterContext::start_session; exchange and finish are the peer's
\* answers to the two commands.  slot_id and measurement_summary_hash_type
\* are handed to the exchange command and decide nothing here.
start_session(pool, use_psk, exchange, finish) ==
    IF ~use_psk
    THEN Bind(send_receive_spdm_key_exchange(pool, exchange), LAMBDA x :
            Bind(Step("send_receive_spdm_key_exchange", x.ret), LAMBDA run1 :
                IF x.ret.ok
                THEN Bind(send_receive_spdm_finish(x.pool, x.ret.value, finish), LAMBDA f :
                        Returns(Then(run1, "send_receive_spdm_finish", f.ret),
                                IF f.ret.ok THEN Ok(x.ret.value) ELSE Err("EIO"), f.pool))
                ELSE Returns(run1, Err("EIO"), x.pool)))
    ELSE Bind(send_receive_spdm_psk_exchange(pool, exchange), LAMBDA x :
            Bind(Step("send_receive_spdm_psk_exchange", x.ret), LAMBDA run1 :
                IF x.ret.ok
                THEN Bind(send_receive_spdm_psk_finish(x.pool, x.ret.value, finish), LAMBDA f :
                        Returns(Then(run1, "send_receive_spdm_psk_finish", f.ret),
                                IF f.ret.ok THEN Ok(x.ret.value) ELSE Err("EIO"), f.pool))
                ELSE Returns(run1, Err("EIO"), x.pool)))

\* RequesterContext::end_session: the command's result is dropped.
end_session(pool, session_id, reply) ==
    Bind(send_receive_spdm_end_session(pool, session_id, reply), LAMBDA e :
        Returns(Step("send_receive_spdm_end_session", e.ret), Ok(<<>>), e.pool))

\* The ids held by the slots of a pool that are in use.
LiveIds(pool) == { pool[i].session_id : i \in { j \in Slots : pool[j].session_state # "NotStarted" } }

InitConnection ==
    /\ \E version \in SpdmResult, capability \in SpdmResult, algorithm \in SpdmResult :
          \E c \in {init_connection(version, capability, algorithm)} :
             requester_call' = [ op |-> "init_connection",
                                 version |-> version, capability |-> capability,
                                 algorithm |-> algorithm,
                                 sent |-> c.sent, results |-> c.results, ret |-> c.ret ]
    /\ UNCHANGED requester_session
    /\ UNCHANGED outside_requester

\* One call of start_session.  The peer answers an exchange with an id that
\* no live session of the Requester holds.
StartSession ==
    /\ \E use_psk \in BOOLEAN, exchange \in SpdmResultU32, finish \in SpdmResult :
          /\ exchange.ok => exchange.value \notin LiveIds(requester_session)
          /\ \E c \in {start_session(requester_session, use_psk, exchange, finish)} :
                /\ requester_call' = [ op |-> "start_session", use_psk |-> use_psk,
                                       exchange |-> exchange, finish |-> finish,
                                       before |-> requester_session,
                                       sent |-> c.sent, results |-> c.results, ret |-> c.ret ]
                /\ requester_session' = c.pool
    /\ UNCHANGED outside_requester

\* One call of end_session on a session the Requester holds.
EndSession ==
    /\ \E session_id \in LiveIds(requester_session), reply \in SpdmResult :
          \E c \in {end_session(requester_session, session_id, reply)} :
             /\ requester_call' = [ op |-> "end_session", session_id |-> session_id,
                                    reply |-> reply, before |-> requester_session,
                                    sent |-> c.sent, results |-> c.results, ret |-> c.ret ]
             /\ requester_session' = c.pool
    /\ UNCHANGED outside_requester

RequesterNext ==
    \/ InitConnection
    \/ StartSession
    \/ EndSession

(***************************************************************************)
(* The send and receive paths of the two roles (requester/context.rs       *)
(* 84-184, responder/context.rs 43-113) over one link.  A sealed record    *)
(* carries the session id, the direction whose key sealed it and that      *)
(* direction's sequence number; it opens under the same three.             *)
(***************************************************************************)
MaxSeq == 2             \* records sealed per direction

Roles == {"requester", "responder"}

ChannelSessionIds == {U32(65534, 65534), U32(65534, 65533)}

NoSession == [session_id |-> INVALID_SESSION_ID, request_seq |-> 0, response_seq |-> 0]

NoFrame == [from |-> "none", secured |-> FALSE, session_id |-> INVALID_SESSION_ID, direction |-> "none", seq |-> 0]

ChannelInit ==
    /\ channel = [role \in Roles |-> NoSession]
    /\ wire = NoFrame
    /\ channel_call = [op |-> "none"]

\* The direction keys picked by the is_requester argument of
\* encode_spdm_secured_message / decode_spdm_secured_message.
direction_of(is_requester) == IF is_requester THEN "request" ELSE "response"

seq_of(s, direction) == IF direction = "request" THEN s.request_seq ELSE s.response_seq

seq_next(s, direction) ==
    IF direction = "request" THEN [s EXCEPT !.request_seq = s.request_seq + 1]
                             ELSE [s EXCEPT !.response_seq = s.response_seq + 1]

\* SpdmSession::encode_spdm_secured_message: seals with the direction's key
\* and sequence number, which then advances.
encode_spdm_secured_message(s, is_requester) ==
    Bind(direction_of(is_requester), LAMBDA direction :
        [ record |-> [session_id |-> s.session_id, direction |-> direction, seq |-> seq_of(s, direction)],
          session |-> seq_next(s, direction) ])

\* SpdmSession::decode_spdm_secured_message on a record of the wire: opens
\* only under the key and sequence number the record was sealed with.
decode_secured_record(s, record, is_requester) ==
    Bind(direction_of(is_requester), LAMBDA direction :
        IF /\ record.session_id = s.session_id
           /\ record.direction = direction
           /\ record.seq = seq_of(s, direction)
        THEN [ok |-> TRUE, direction |-> direction, session |-> seq_next(s, direction)]
        ELSE [ok |-> FALSE, direction |-> direction, session |-> s])

\* transport_encap.encap(.., secured) followed by device_io.send.
encap(from, record, secured) ==
    [ from |-> from, secured |-> secured, session_id |-> record.session_id,
      direction |-> record.direction, seq |-> record.seq ]

Plain == [session_id |-> INVALID_SESSION_ID, direction |-> "none", seq |-> 0]

\* What a send or receive path returns, the session it leaves and the frame
\* it leaves on the link.
PathResult(ret, s, frame) == [ret |-> ret, session |-> s, wire |-> frame]

\* get_session_via_id on the one session of a role.
holds(s, session_id) == session_id # INVALID_SESSION_ID /\ s.session_id = session_id

\* send_message of either role: encap with secured = false.
channel_send_message(role, s, frame, sent_ok) ==
    IF ~sent_ok THEN PathResult(Err("EIO"), s, frame)
    ELSE PathResult(Ok(<<>>), s, encap(role, Plain, FALSE))

\* send_secured_message: get_session_via_id, encode_spdm_secured_message
\* with the role's flag, encap with secured = true.
channel_send_secured_message(role, s, frame, session_id, is_requester, sent_ok) ==
    IF ~holds(s, session_id) THEN PathResult(Err("EINVAL"), s, frame)
    ELSE Bind(encode_spdm_secured_message(s, is_requester), LAMBDA e :
            IF ~sent_ok THEN PathResult(Err("EIO"), e.session, frame)
            ELSE PathResult(Ok(<<>>), e.session, encap(role, e.record, TRUE)))

\* RequesterContext::send_message.
requester_send_message(s, frame, sent_ok) == channel_send_message("requester", s, frame, sent_ok)

\* RequesterContext::send_secured_message: seals with is_requester = true.
requester_send_secured_message(s, frame, session_id, sent_ok) ==
    channel_send_secured_message("requester", s, frame, session_id, TRUE, sent_ok)

\* ResponderContext::send_message on the link.
responder_send_message(s, frame, sent_ok) == channel_send_message("responder", s, frame, sent_ok)

\* ResponderContext::send_secured_message on the link: seals with is_requester = false.
responder_send_secured_message(s, frame, session_id, sent_ok) ==
    channel_send_secured_message("responder", s, frame, session_id, FALSE, sent_ok)

\* receive_message that hands a secured frame to its caller.
requester_receive_message_any(s, frame) ==
    IF frame.from = "none" THEN PathResult(Err("EIO"), s, frame)
    ELSE PathResult(Ok(<<>>), s, NoFrame)

\* RequesterContext::receive_message: device_io.receive, decap, and an error
\* for a secured frame.
requester_receive_message(s, frame) ==
    IF frame.from = "none" THEN PathResult(Err("EIO"), s, frame)
    ELSE IF frame.secured THEN PathResult(Err("EFAULT"), s, NoFrame)
    ELSE PathResult(Ok(<<>>), s, NoFrame)

\* receive_secured_message that opens with the flag of the sending path.
requester_receive_secured_message_same_flag(s, frame, session_id) ==
    IF frame.from = "none" THEN PathResult(Err("EIO"), s, frame)
    ELSE IF ~frame.secured THEN PathResult(Err("EFAULT"), s, NoFrame)
    ELSE IF ~holds(s, session_id) THEN PathResult(Err("EINVAL"), s, NoFrame)
    ELSE Bind(decode_secured_record(s, frame, TRUE), LAMBDA d :
            PathResult(IF d.ok THEN Ok(<<>>) ELSE Err("EFAULT"), d.session, NoFrame))

\* RequesterContext::receive_secured_message: an error for an unsecured
\* frame, then get_session_via_id and decode with is_requester = false.
requester_receive_secured_message(s, frame, session_id) ==
    IF frame.from = "none" THEN PathResult(Err("EIO"), s, frame)
    ELSE IF ~frame.secured THEN PathResult(Err("EFAULT"), s, NoFrame)
    ELSE IF ~holds(s, session_id) THEN PathResult(Err("EINVAL"), s, NoFrame)
    ELSE Bind(decode_secured_record(s, frame, FALSE), LAMBDA d :
            PathResult(IF d.ok THEN Ok(<<>>) ELSE Err("EFAULT"), d.session, NoFrame))

\* ResponderContext::process_message up to the dispatch: a secured frame is
\* opened by the session its id names, with is_requester = true.
responder_process_message(s, frame) ==
    IF frame.from = "none" THEN PathResult(Err("EIO"), s, frame)
    ELSE IF ~frame.secured THEN PathResult(Ok(<<>>), s, NoFrame)
    ELSE IF ~holds(s, frame.session_id) THEN PathResult(Err("EINVAL"), s, NoFrame)
    ELSE Bind(decode_secured_record(s, frame, TRUE), LAMBDA d :
            PathResult(IF d.ok THEN Ok(<<>>) ELSE Err("EFAULT"), d.session, NoFrame))

\* Both roles reach Established on one session: fresh keys and counters.
Establish ==
    /\ \E session_id \in ChannelSessionIds :
          channel' = [role \in Roles |-> [NoSession EXCEPT !.session_id = session_id]]
    /\ wire' = NoFrame
    /\ channel_call' = [op |-> "establish"]
    /\ UNCHANGED outside_channel

ChannelCall(role, op, session_id, c) ==
    /\ channel_call' = [ op |-> op, role |-> role, session_id |-> session_id, received |-> wire,
                         before |-> channel[role], ret |-> c.ret ]
    /\ channel' = [channel EXCEPT ![role] = c.session]
    /\ wire' = c.wire
    /\ UNCHANGED outside_channel

Unsealed(s) == s.request_seq < MaxSeq /\ s.response_seq < MaxSeq

RequesterSendMessage ==
    \E sent_ok \in BOOLEAN :
       \E c \in {requester_send_message(channel.requester, wire, sent_ok)} :
          ChannelCall("requester", "send_message", INVALID_SESSION_ID, c)

RequesterSendSecuredMessage ==
    /\ Unsealed(channel.requester)
    /\ \E session_id \in ChannelSessionIds, sent_ok \in BOOLEAN :
          \E c \in {requester_send_secured_message(channel.requester, wire, session_id, sent_ok)} :
             ChannelCall("requester", "send_secured_message", session_id, c)

RequesterReceiveMessage ==
    \E c \in {requester_receive_message(channel.requester, wire)} :
       ChannelCall("requester", "receive_message", INVALID_SESSION_ID, c)

RequesterReceiveSecuredMessage ==
    \E session_id \in ChannelSessionIds :
       \E c \in {requester_receive_secured_message(channel.requester, wire, session_id)} :
          ChannelCall("requester", "receive_secured_message", session_id, c)

ResponderSendMessage ==
    \E sent_ok \in BOOLEAN :
       \E c \in {responder_send_message(channel.responder, wire, sent_ok)} :
          ChannelCall("responder", "send_message", INVALID_SESSION_ID, c)

ResponderSendSecuredMessage ==
    /\ Unsealed(channel.responder)
    /\ \E session_id \in ChannelSessionIds, sent_ok \in BOOLEAN :
          \E c \in {responder_send_secured_message(channel.responder, wire, session_id, sent_ok)} :
             ChannelCall("responder", "send_secured_message", session_id, c)

ResponderProcessMessage ==
    \E c \in {responder_process_message(channel.responder, wire)} :
       ChannelCall("responder", "process_message", wire.session_id, c)

ChannelNext ==
    \/ Establish
    \/ RequesterSendMessage
    \/ RequesterSendSecuredMessage
    \/ RequesterReceiveMessage
    \/ RequesterReceiveSecuredMessage
    \/ ResponderSendMessage
    \/ ResponderSendSecuredMessage
    \/ ResponderProcessMessage

Init == ResponderInit /\ SessionIdIdle /\ RegistryUninit /\ RaceInit /\ CodecIdle /\ RequesterInit /\ ChannelInit

Spec == Init /\ [][Next]_vars

(***************************************************************************)
(* Properties.  They read the last call (turn) and the state it began in   *)
(* (pre).                                                                  *)
(***************************************************************************)
UnsecuredHandlers ==
    { "handle_spdm_version", "handle_spdm_capability", "handle_spdm_algorithm",
      "handle_spdm_digest", "handle_spdm_certificate", "handle_spdm_challenge",
      "handle_spdm_measurement", "handle_spdm_key_exchange", "handle_spdm_psk_exchange" }

SecuredHandlers ==
    { "handle_spdm_finish", "handle_spdm_psk_finish", "handle_spdm_heartbeat",
      "handle_spdm_key_update", "handle_spdm_end_session" }

\* The handler the specification gives each request code.
PhaseTable ==
    { <<"SpdmRequestGetVersion", "handle_spdm_version">>,
      <<"SpdmRequestGetCapabilities", "handle_spdm_capability">>,
      <<"SpdmRequestNegotiateAlgorithms", "handle_spdm_algorithm">>,
      <<"SpdmRequestGetDigests", "handle_spdm_digest">>,
      <<"SpdmRequestGetCertificate", "handle_spdm_certificate">>,
      <<"SpdmRequestChallenge", "handle_spdm_challenge">>,
      <<"SpdmRequestGetMeasurements", "handle_spdm_measurement">>,
      <<"SpdmRequestKeyExchange", "handle_spdm_key_exchange">>,
      <<"SpdmRequestPskExchange", "handle_spdm_psk_exchange">>,
      <<"SpdmRequestFinish", "handle_spdm_finish">>,
      <<"SpdmRequestPskFinish", "handle_spdm_psk_finish">>,
      <<"SpdmRequestHeartbeat", "handle_spdm_heartbeat">>,
      <<"SpdmRequestKeyUpdate", "handle_spdm_key_update">>,
      <<"SpdmRequestEndSession", "handle_spdm_end_session">> }

IsFrame == turn.kind \in {"unsecured", "secured"}

\* The frame reached a dispatcher and its header was read.
Dispatched == IsFrame /\ turn.result # "Err" /\ turn.header_ok

\* Exactly one frame was sent and it is an ERROR frame with this code.
SentError(error_code) ==
    /\ Len(turn.sent) = 1
    /\ turn.sent[1].code = "SpdmResponseError"
    /\ turn.sent[1].param1 = error_code

IsKeyExchange == turn.kind = "unsecured" /\ turn.handlers = <<"handle_spdm_key_exchange">>
IsPskExchange == turn.kind = "unsecured" /\ turn.handlers = <<"handle_spdm_psk_exchange">>
IsExchange == IsKeyExchange \/ IsPskExchange

PoolFull(pool) == \A i \in Slots : pool[i].session_state # "NotStarted"

\* C1: a frame runs at most one handler, the one its code has in the table of
\* the frame's phase; a code of the other phase's table runs none.
C1_OneHandlerOfThePhase ==
    IsFrame =>
        /\ Len(turn.handlers) <= 1
        /\ \A i \in DOMAIN turn.handlers :
            /\ <<turn.code, turn.handlers[i]>> \in PhaseTable
            /\ turn.kind = "unsecured" => turn.handlers[i] \in UnsecuredHandlers
            /\ turn.kind = "secured" => turn.handlers[i] \in SecuredHandlers
        /\ (turn.kind = "unsecured" /\ turn.code \in SecuredRequestCodes) => turn.handlers = <<>>
        /\ (turn.kind = "secured" /\ turn.code \in UnsecuredRequestCodes) => turn.handlers = <<>>

C1_Witness ==
    /\ turn.kind = "secured"
    /\ turn.code = "SpdmRequestFinish"
    /\ turn.handlers = <<"handle_spdm_finish">>

\* C2: a recognized code that is not in the table of the frame's phase is
\* answered with an UnexpectedRequest error frame.
C2_OtherPhaseCodeGetsUnexpectedRequest ==
    ( /\ Dispatched
      /\ turn.code \in RecognizedCodes
      /\ \/ turn.kind = "unsecured" /\ turn.code \notin UnsecuredRequestCodes
         \/ turn.kind = "secured" /\ turn.code \notin SecuredRequestCodes )
    => SentError("SpdmErrorUnexpectedRequest")

\* C3: a code that decodes to Unknown(raw) is answered with an
\* UnsupportedRequest error frame.
C3_UnknownCodeGetsUnsupportedRequest ==
    (Dispatched /\ turn.code = "Unknown") => SentError("SpdmErrorUnsupportedRequest")

\* The session id prefix of the secured frame matches a slot of the pool.
SessionMatched ==
    turn.sid_ok /\ \E i \in Slots : pre.session[i].session_id = turn.session_id

\* The matched session decoded the secured message.
SessionDecoded ==
    /\ SessionMatched
    /\ turn.aead_ok
    /\ pre.session[get_session_via_id(pre.session, turn.session_id)].session_state # "NotStarted"

C5_AeadFailureGetsDecryptError ==
    ( /\ turn.kind = "secured"
      /\ SessionMatched
      /\ pre.session[get_session_via_id(pre.session, turn.session_id)].session_state # "NotStarted"
      /\ ~turn.aead_ok )
    => SentError("SpdmErrorDecryptError")

\* message_k holds the request and the response up to (not including) the HMAC.
TranscriptFits ==
    IF IsKeyExchange
    THEN turn.req.len + RspPrefixLen + AsymSize <= MaxMessageBuffer
    ELSE turn.req.len + PskRspPrefixLen <= MaxMessageBuffer

\* The run got as far as asking the pool for a slot.
ReachedAllocation ==
    /\ IsExchange
    /\ turn.req.decodable
    /\ TranscriptFits
    /\ turn.fail \notin {"generate_key_pair", "compute_final_key", "th1"}
    /\ IsKeyExchange => turn.fail # "sign"

\* C6: with every slot active, a further KeyExchange or PskExchange is answered
\* with a SessionLimitExceeded error frame.
C6_FullPoolGetsSessionLimitExceeded ==
    (ReachedAllocation /\ PoolFull(pre.session)) => SentError("SpdmErrorSessionLimitExceeded")

\* C7: with every slot active, handling a further KeyExchange or PskExchange
\* leaves the session pool unchanged.
C7_FullPoolUnchanged ==
    (IsExchange /\ PoolFull(pre.session)) => session = pre.session

C7_Witness ==
    /\ ReachedAllocation
    /\ PoolFull(pre.session)
    /\ turn.sent # <<>>

\* Bytes message_k holds once the HMAC is appended.
TranscriptLen ==
    IF IsKeyExchange
    THEN turn.req.len + RspPrefixLen + AsymSize + HashSize
    ELSE turn.req.len + PskRspPrefixLen + HashSize

\* With every provider operation succeeding, some append to message_k overflowed.
AppendOverflowed ==
    /\ IsExchange
    /\ turn.req.decodable
    /\ turn.fail = "none"
    /\ TranscriptLen > MaxMessageBuffer
    /\ TranscriptFits => ~PoolFull(pre.session)

\* C8: a request that fails to decode, or an overflowing message_k append, gives
\* one InvalidRequest error frame and no response; after a decode failure the
\* pool and need_measurement_summary_hash are as before, after an overflow no
\* slot remains allocated for the request.
C8_DecodeFailureAndOverflowRollBack ==
    IsExchange =>
        /\ ~turn.req.decodable =>
            /\ SentError("SpdmErrorInvalidRequest")
            /\ session = pre.session
            /\ need_measurement_summary_hash = pre.flag
        /\ AppendOverflowed =>
            /\ SentError("SpdmErrorInvalidRequest")
            /\ \A i \in Slots :
                pre.session[i].session_state = "NotStarted"
                    => session[i].session_state = "NotStarted"

\* A provider operation (signature, transcript hash, HMAC) failed in the run.
ProviderFailed ==
    /\ IsExchange
    /\ turn.req.decodable
    /\ \/ IsKeyExchange /\ turn.fail = "sign"
                        /\ turn.req.len + RspPrefixLen <= MaxMessageBuffer
       \/ turn.fail = "th1" /\ TranscriptFits
       \/ turn.fail = "hmac" /\ TranscriptFits /\ ~PoolFull(pre.session)

\* C9: a failing provider operation in KeyExchange / PskExchange is reported
\* with an Unspecified error frame.
C9_ProviderFailureGetsUnspecified ==
    ProviderFailed => SentError("SpdmErrorUnspecified")

\* C10: handle_spdm_key_exchange ends every decodable request by sending a
\* response or an error frame; it never panics.
C10_KeyExchangeNeverPanics ==
    (IsKeyExchange /\ turn.req.decodable) =>
        /\ turn.result # "panic"
        /\ Len(turn.sent) = 1

\* Versions, capabilities and algorithms have all been negotiated.
NegotiationComplete == negotiate_info = NegotiationSteps

\* The slots that are in use.
Allocated(pool) == {i \in Slots : pool[i].session_state # "NotStarted"}

\* C11: a KeyExchange or PskExchange that arrives before versions, capabilities
\* and algorithms are negotiated is answered with an UnexpectedRequest error
\* frame and allocates no slot.
C11_ExchangeBeforeNegotiationGetsUnexpectedRequest ==
    (IsExchange /\ ~NegotiationComplete) =>
        /\ SentError("SpdmErrorUnexpectedRequest")
        /\ Allocated(session) = Allocated(pre.session)

\* The run ended by sending an error frame.
EndedWithError ==
    /\ turn.sent # <<>>
    /\ turn.sent[Len(turn.sent)].code = "SpdmResponseError"

\* C12: a KeyExchange / PskExchange run that ends by sending an error frame
\* leaves the same set of slots allocated as before the run.
C12_ErrorLeavesAllocationUnchanged ==
    (IsExchange /\ EndedWithError) => Allocated(session) = Allocated(pre.session)

\* The run transmitted its KEY_EXCHANGE_RSP / PSK_EXCHANGE_RSP.
ResponseTransmitted ==
    /\ Len(turn.sent) = 1
    /\ turn.sent[1].code \in {"SpdmResponseKeyExchangeRsp", "SpdmResponsePskExchangeRsp"}

\* Operations that put a session in Handshaking.
MovesToHandshaking(e) == e.op \in {"setup", "set_session_state"}

\* C13: in a KeyExchange / PskExchange run no session is moved to Handshaking
\* before the response has been transmitted, and a slot the run leaves newly
\* in Handshaking has had its response transmitted.
C13_HandshakingOnlyAfterTransmission ==
    IsExchange =>
        /\ \A i \in DOMAIN turn.events :
              MovesToHandshaking(turn.events[i])
                  => \E j \in 1..(i - 1) : turn.events[j].op = "send_message"
        /\ \A i \in Slots :
              ( /\ pre.session[i].session_state = "NotStarted"
                /\ session[i].session_state = "Handshaking" ) => ResponseTransmitted

\* The slot get_next_avaiable_session hands to the run.
NewSlot == get_next_avaiable_session(pre.session)

\* The tags of the segments of a buffer, in order.
TagsOf(buf) == [i \in DOMAIN buf |-> buf[i].tag]

\* C14: after a successful KeyExchange (PskExchange) the new session's message_k
\* is the request, the response prefix, the signature (KeyExchange only) and
\* the HMAC, in this order, and equals the request bytes followed by the bytes
\* of the transmitted response.
C14_MessageKIsRequestThenResponse ==
    (IsExchange /\ ResponseTransmitted) =>
        /\ session[NewSlot].message_k
              = <<Segment("request", turn.req.len)>> \o turn.sent[1].payload.body
        /\ TagsOf(session[NewSlot].message_k)
              = IF IsKeyExchange
                THEN <<"request", "response_prefix", "signature", "hmac">>
                ELSE <<"request", "response_prefix", "hmac">>

\* The fill bytes of the signature and verify_data regions of send_buffer.
PlaceholderTags == {"signature_0xbb", "verify_data_0xcc"}

HasPlaceholder(buf) == \E i \in DOMAIN buf : buf[i].tag \in PlaceholderTags

\* C15: in handle_spdm_key_exchange the signed data is the request followed by
\* the response truncated before the signature, with no byte of the signature
\* or HMAC placeholder regions; the HMACed data holds the real signature and no
\* byte of the HMAC placeholder region.
C15_SignedAndHmacedDataArePlaceholderFree ==
    IsKeyExchange =>
        \A i \in DOMAIN turn.events :
            /\ turn.events[i].op = "sign" =>
                  /\ ~HasPlaceholder(turn.events[i].arg)
                  /\ turn.events[i].arg
                        = << Segment("request", turn.req.len),
                             Segment("response_prefix", RspPrefixLen) >>
            /\ turn.events[i].op = "generate_hmac" =>
                  /\ ~HasPlaceholder(turn.events[i].arg)
                  /\ \E k \in DOMAIN turn.events[i].arg :
                        turn.events[i].arg[k] = Segment("signature", AsymSize)

C15_Witness ==
    /\ IsKeyExchange
    /\ \E i \in DOMAIN turn.events : turn.events[i].op = "sign"
    /\ \E i \in DOMAIN turn.events : turn.events[i].op = "generate_hmac"
    /\ ResponseTransmitted

\* C16: a transmitted KEY_EXCHANGE_RSP / PSK_EXCHANGE_RSP carries no filler in
\* its measurement summary hash, signature and verify_data fields.
C16_NoPlaceholderTransmitted ==
    (IsExchange /\ ResponseTransmitted) =>
        /\ turn.sent[1].payload.measurement_summary_hash # "0xaa"
        /\ ~HasPlaceholder(turn.sent[1].payload.body)

\* C17: a KeyExchange / PskExchange run sends at most one frame, and an error
\* frame is the last thing the run does: no response, no transcript append and
\* no state change follows it.
C17_ErrorIsTerminal ==
    IsExchange =>
        /\ Len(turn.sent) <= 1
        /\ \A i \in DOMAIN turn.events :
              turn.events[i].op = "send_spdm_error" => i = Len(turn.events)

C17_Witness ==
    /\ IsKeyExchange
    /\ turn.fail = "sign"
    /\ SentError("SpdmErrorInvalidRequest")
    /\ Len(turn.events) > 1

SessionIdSpec == Init /\ [][SessionIdNext]_vars

RegistrySpec == Init /\ [][RegistryNext]_vars

\* Bitwise or of two naturals.
RECURSIVE BitOr(_, _)
BitOr(a, b) ==
    IF a = 0 THEN b
    ELSE IF b = 0 THEN a
    ELSE (IF a % 2 = 1 \/ b % 2 = 1 THEN 1 ELSE 0) + 2 * BitOr(a \div 2, b \div 2)

\* a | b on u32.
or_u32(a, b) == U32(BitOr(a.hi, b.hi), BitOr(a.lo, b.lo))

\* C18: the session id assigned by the two handlers is
\* (req_session_id << 16) | rsp_session_id as a 32-bit value: the upper half
\* is req_session_id, the lower half rsp_session_id, for every 16-bit
\* req_session_id.
C18_SessionIdIsShiftOr ==
    id_call.handler # "none" =>
        /\ id_call.session_id
              = or_u32(shl16(as_u32(id_call.req_session_id)), as_u32(id_call.rsp_session_id))
        /\ id_call.session_id.hi = id_call.req_session_id
        /\ id_call.session_id.lo = id_call.rsp_session_id

C18_Witness ==
    /\ id_call.handler = "handle_spdm_key_exchange"
    /\ id_call.req_session_id = 65535
    /\ id_call.session_id = U32(65535, 65534)

\* C19: on each registry entry only the first register call returns true; a
\* register call that follows an earlier register call on the entry returns
\* false.
C19_OnlyFirstRegisterReturnsTrue ==
    (registry_call.op = "register" /\ registry_call.registered_before)
        => registry_call.ret = FALSE

\* C20: once a provider is installed on an entry, every later lookup uses that
\* provider, no register call changes it, and a register call made after the
\* first lookup returns false.
C20_InstalledProviderIsFinal ==
    /\ registry_call.before # "uninit" =>
          /\ registry[registry_call.entry] = registry_call.before
          /\ registry_call.op = "lookup" => registry_call.used = registry_call.before
    /\ (registry_call.op = "register" /\ registry_call.looked_up_before)
          => registry_call.ret = FALSE

RaceSpec == Init /\ [][RaceNext]_vars

\* C21: when two threads call register on the same registry entry
\* concurrently with different providers, at most one of the calls returns
\* true, and every lookup made after both calls have returned uses the
\* provider of the call that returned true.
C21_ConcurrentRegisterHasOneWinner ==
    (\A t \in Threads : callers[t].pc = "returned") =>
        /\ ~(callers[1].ret /\ callers[2].ret)
        /\ \A t \in Threads :
              (callers[t].ret /\ reader.pc = "returned" /\ reader.after_registers)
                  => reader.used = callers[t].context

CodecSpec == Init /\ [][CodecNext]_vars

\* The frame holds both parameter bytes and, for code 0x42, the four bytes of
\* the ResponseNotReady extended data.
ErrorFrameRead == codec_call.op = "SpdmErrorResponsePayload::spdm_read"

WholeErrorFrame ==
    /\ Len(codec_call.bytes) >= 2
    /\ codec_call.bytes[1] = 66 => Len(codec_call.bytes) >= 6

ExtKind == codec_call.ret.value.extended_data.kind

\* C22: decoding an error frame yields ResponseNotReady extended data exactly
\* when error_code is 0x42, VendorDefined extended data exactly when it is
\* 0xFF and None extended data for every other code; a code outside the
\* recognized set decodes as Unknown(raw), not as a decode failure.
C22_ErrorFrameDiscriminant ==
    (ErrorFrameRead /\ WholeErrorFrame) =>
        LET code == codec_call.bytes[1]
        IN  /\ codec_call.ret.ok
            /\ ExtKind = "SpdmErrorExtDataNotReady" <=> code = 66
            /\ ExtKind = "SpdmErrorExtDataVendorDefined" <=> code = 255
            /\ ExtKind = "SpdmErrorExtDataNone" <=> code \notin {66, 255}
            /\ (\A v \in DOMAIN SpdmErrorCodeValues : SpdmErrorCodeValues[v] # code)
                  => codec_call.ret.value.error_code = [variant |-> "Unknown", unknown |-> code]
            /\ \A v \in DOMAIN SpdmErrorCodeValues :
                  SpdmErrorCodeValues[v] = code => codec_call.ret.value.error_code.variant = v

\* An unrecognized code was decoded, with bytes after the parameters.
C22_Witness ==
    /\ ErrorFrameRead
    /\ Len(codec_call.bytes) = 2 + MaxExtLen
    /\ codec_call.bytes[1] = 240
    /\ codec_call.ret.ok
    /\ codec_call.ret.value.error_code = [variant |-> "Unknown", unknown |-> 240]
    /\ ExtKind = "SpdmErrorExtDataNone"

\* The negotiated size of the structure of the last call.
NegotiatedSize == get_size(codec_call.struct, codec_call.context)

LengthOf(blocks) == calc_length(blocks, Len(blocks))

\* The 24-bit length field of the bytes of an encoded record.
EncodedLength(bytes) == le_value(SubSeq(bytes, 2, 4))

RecordEncoded ==
    /\ codec_call.op = "SpdmMeasurementRecordStructure::spdm_encode"
    /\ ~codec_call.ret.panicked

RecordRead == codec_call.op = "SpdmMeasurementRecordStructure::spdm_read"

\* C24: the encoded 24-bit length field of a measurement record equals the
\* sum of (measurement_size + 4) over its number_of_blocks blocks, and
\* decoding returns not-present for every frame in which the length field
\* differs from that sum over the frame's blocks or in which some block has
\* measurement_size # value_size + 3.
C24_RecordLengthIsSumOfBlocks ==
    /\ RecordEncoded =>
          EncodedLength(codec_call.ret.w.buf) = LengthOf(codec_call.self.record)
    /\ ( /\ RecordRead
         /\ \/ codec_call.frame.record_length # LengthOf(codec_call.frame.blocks)
            \/ \E i \in DOMAIN codec_call.frame.blocks :
                  codec_call.frame.blocks[i].measurement_size
                      # codec_call.frame.blocks[i].value_size + 3 )
          => ~codec_call.ret.ok

\* a & b on bytes.
RECURSIVE BitAnd(_, _)
BitAnd(a, b) ==
    IF a = 0 \/ b = 0 THEN 0
    ELSE (IF a % 2 = 1 /\ b % 2 = 1 THEN 1 ELSE 0) + 2 * BitAnd(a \div 2, b \div 2)

\* The byte of a representation: bit 7 set for a raw bit stream.
representation_get_u8(representation) ==
    CASE representation.variant = "SpdmDmtfMeasurementDigest" -> 0
      [] representation.variant = "SpdmDmtfMeasurementRawBit" -> 128
      [] OTHER -> representation.unknown

\* C25: SpdmDmtfMeasurementStructure encodes its first byte as
\* (representation & 0x80) | (type & 0x7f), for every measurement type and
\* representation.
C25_FirstByteIsRepresentationOrType ==
    codec_call.op = "SpdmDmtfMeasurementStructure::spdm_encode" =>
        /\ ~codec_call.ret.panicked
        /\ codec_call.ret.w.buf[1]
              = BitOr(BitAnd(representation_get_u8(codec_call.self.representation), 128),
                      BitAnd(type_get_u8(codec_call.self.type), 127))

\* A record the codec is meant to carry: no more blocks than the array holds,
\* every block with measurement_size = value_size + 3, a recognized type and
\* the representation Digest or RawBit.
ValidRecord(p) ==
    /\ p.number_of_blocks <= MaxBlockCount
    /\ \A i \in DOMAIN p.record :
          /\ p.record[i].measurement_size = p.record[i].measurement.value_size + 3
          /\ p.record[i].measurement.type.variant # "Unknown"
          /\ p.record[i].measurement.representation.variant # "Unknown"

\* C26: for every valid SpdmMeasurementRecordStructure p, decoding the
\* encoding of p yields p, with the same type and representation in every
\* block.
C26_MeasurementRecordRoundTrip ==
    ( /\ codec_call.op = "SpdmMeasurementRecordStructure::spdm_encode"
      /\ ValidRecord(codec_call.self) )
        => /\ ~codec_call.ret.panicked
           /\ codec_call.read.ok
           /\ codec_call.read.value = codec_call.self

(***************************************************************************)
(* The Requester's orchestration routines.                                 *)
(***************************************************************************)
RequesterSpec == Init /\ [][RequesterNext]_vars

InitConnectionOrder ==
    <<"send_receive_spdm_version", "send_receive_spdm_capability", "send_receive_spdm_algorithm">>

\* C27: init_connection runs Version, Capabilities, Algorithms in that order;
\* the first step that fails ends the call with that step's error and no later
\* step runs; the call returns Ok only if all three steps succeeded.
C27_InitConnectionStopsAtFirstFailure ==
    requester_call.op = "init_connection"
        => LET n == Len(requester_call.sent)
               answers == <<requester_call.version, requester_call.capability,
                            requester_call.algorithm>>
           IN  /\ n \in 1..3
               /\ requester_call.sent = SubSeq(InitConnectionOrder, 1, n)
               /\ requester_call.results = SubSeq(answers, 1, n)
               /\ \A i \in 1..(n - 1) : answers[i].ok
               /\ n < 3 => ~answers[n].ok
               /\ requester_call.ret = answers[n]
               /\ requester_call.ret.ok <=> \A i \in 1..3 : answers[i].ok

\* Capabilities fails after Version succeeded: its error is returned and
\* Algorithms, which would have failed otherwise, is not run.
C27_Witness ==
    /\ requester_call.op = "init_connection"
    /\ requester_call.version = Ok(<<>>)
    /\ requester_call.capability = Err("EINVAL")
    /\ requester_call.algorithm = Err("EFAULT")
    /\ requester_call.sent = <<"send_receive_spdm_version", "send_receive_spdm_capability">>
    /\ requester_call.ret = Err("EINVAL")

ExchangeOf(use_psk) ==
    IF use_psk THEN "send_receive_spdm_psk_exchange" ELSE "send_receive_spdm_key_exchange"

FinishOf(use_psk) ==
    IF use_psk THEN "send_receive_spdm_psk_finish" ELSE "send_receive_spdm_finish"

\* C28: start_session runs KeyExchange then Finish without PSK and PskExchange
\* then PskFinish with PSK, never a command of the other flow; the finish step
\* runs only if the exchange step succeeded; the call returns Ok(id) exactly
\* when both steps succeeded, and id is the id the exchange step returned.
C28_StartSessionFlows ==
    requester_call.op = "start_session"
        => LET n == Len(requester_call.sent)
               use_psk == requester_call.use_psk
           IN  /\ n \in 1..2
               /\ requester_call.sent[1] = ExchangeOf(use_psk)
               /\ n = 2 => requester_call.sent[2] = FinishOf(use_psk)
               /\ n = 2 <=> requester_call.results[1].ok
               /\ requester_call.ret.ok <=> \A i \in 1..2 : i <= n /\ requester_call.results[i].ok
               /\ requester_call.ret.ok => requester_call.ret.value = requester_call.results[1].value

\* A PSK session started while another session is live.
C28_Witness ==
    /\ requester_call.op = "start_session"
    /\ requester_call.use_psk
    /\ requester_call.sent = <<"send_receive_spdm_psk_exchange", "send_receive_spdm_psk_finish">>
    /\ requester_call.ret.ok
    /\ requester_call.ret.value = requester_call.exchange.value
    /\ LiveIds(requester_call.before) # {}
    /\ \E i \in Slots :
          /\ requester_session[i].session_id = requester_call.ret.value
          /\ requester_session[i].session_state = "Established"

\* C29: when start_session fails after its exchange step succeeded, no slot of
\* the Requester's pool holds the session id of the failed attempt.
C29_FailedFinishTearsDown ==
    ( /\ requester_call.op = "start_session"
      /\ Len(requester_call.sent) = 2
      /\ ~requester_call.ret.ok )
        => \A i \in Slots :
              requester_session[i].session_id # requester_call.results[1].value

\* C30: end_session(id) returns Ok, and after it no slot of the Requester's
\* pool holds id, whether the EndSession exchange succeeded or not.
C30_EndSessionFreesRegardless ==
    requester_call.op = "end_session"
        => /\ requester_call.ret = Ok(<<>>)
           /\ \A i \in Slots : requester_session[i].session_id # requester_call.session_id

(***************************************************************************)
(* The send and receive paths of the two roles.                            *)
(***************************************************************************)
ChannelSpec == Init /\ [][ChannelNext]_vars

RequesterCall(op) == channel_call.op = op /\ channel_call.role = "requester"

SessionUntouched == channel.requester = channel_call.before

\* C31: the Requester's send_message leaves an unsecured frame and its
\* send_secured_message a secured one; receive_message returns an error for a
\* secured frame and receive_secured_message for an unsecured one, and in both
\* cases the session is as it was.
C31_SecuredBitIsSymmetric ==
    /\ (RequesterCall("send_message") /\ channel_call.ret.ok)
          => (wire.from = "requester" /\ ~wire.secured)
    /\ (RequesterCall("send_secured_message") /\ channel_call.ret.ok)
          => (wire.from = "requester" /\ wire.secured)
    /\ (RequesterCall("receive_message") /\ channel_call.received.secured)
          => (~channel_call.ret.ok /\ SessionUntouched)
    /\ (RequesterCall("receive_secured_message") /\ channel_call.received.from # "none"
            /\ ~channel_call.received.secured)
          => (~channel_call.ret.ok /\ SessionUntouched)

\* receive_message met a record the Responder sealed for the session the
\* Requester holds, which receive_secured_message would have opened.
C31_Witness ==
    /\ RequesterCall("receive_message")
    /\ channel_call.received.from = "responder"
    /\ channel_call.received.secured
    /\ channel_call.received.session_id = channel.requester.session_id
    /\ channel_call.received.direction = "response"
    /\ channel_call.received.seq = channel.requester.response_seq
    /\ channel_call.ret = Err("EFAULT")

Peer(role) == IF role = "requester" THEN "responder" ELSE "requester"

\* The last call opened a record that the other role sealed for the session
\* the caller holds, at the sequence number the caller expects.
OpenedPeerRecord ==
    /\ channel_call.op \in {"receive_secured_message", "process_message"}
    /\ channel_call.received.secured
    /\ channel_call.received.from = Peer(channel_call.role)
    /\ channel_call.before.session_id # INVALID_SESSION_ID
    /\ channel_call.received.session_id = channel_call.before.session_id
    /\ channel_call.session_id = channel_call.before.session_id
    /\ channel_call.received.seq = seq_of(channel_call.before, channel_call.received.direction)

\* C39: the Requester seals in the request direction and the Responder in the
\* response direction, and a record sealed by one role is opened by the other
\* with the direction it was sealed with: the open succeeds and advances the
\* counter of that direction.
C39_DirectionsAreOpposite ==
    /\ (wire.secured /\ wire.from = "requester") => wire.direction = "request"
    /\ (wire.secured /\ wire.from = "responder") => wire.direction = "response"
    /\ OpenedPeerRecord
          => /\ channel_call.ret.ok
             /\ channel[channel_call.role]
                   = seq_next(channel_call.before, channel_call.received.direction)

\* The Requester opens the second record the Responder sealed.
C39_Witness ==
    /\ OpenedPeerRecord
    /\ channel_call.role = "requester"
    /\ channel_call.received.direction = "response"
    /\ channel_call.received.seq = 1
    /\ channel_call.ret.ok
    /\ channel.requester.response_seq = 2

(***************************************************************************)
(* The exchange handlers of the Responder: signature, TH1, HMAC and the    *)
(* slot they work on.                                                      *)
(***************************************************************************)
EventsOf(op) == { i \in DOMAIN turn.events : turn.events[i].op = op }

\* C32: handle_spdm_psk_exchange never calls the asymmetric sign operation,
\* and the message_k it stores is the request, the response prefix and the HMAC.
C32_PskExchangeHasNoSignature ==
    IsPskExchange =>
        /\ EventsOf("sign") = {}
        /\ \A i \in EventsOf("store_message_k") :
              TagsOf(session[turn.events[i].arg].message_k)
                  = <<"request", "response_prefix", "hmac">>

C32_Witness ==
    /\ IsPskExchange
    /\ ResponseTransmitted
    /\ EventsOf("store_message_k") # {}
    /\ session[NewSlot].use_psk
    /\ TagsOf(session[NewSlot].message_k) = <<"request", "response_prefix", "hmac">>

\* C33: in handle_spdm_key_exchange, get_session_via_id(session_id) after
\* setup returns the slot that get_next_avaiable_session gave: the teardown,
\* the stored message_k and the state change are all on the slot allocated in
\* this turn, whatever the pool held before.
C33_LookupReturnsTheNewSlot ==
    IsKeyExchange =>
        \A i \in EventsOf("store_message_k") \cup EventsOf("teardown")
                    \cup EventsOf("set_session_state") :
            turn.events[i].arg = NewSlot

\* The last call of an append whose buffer ends with a segment of this tag.
AppendsOf(tag) ==
    { i \in EventsOf("append_message") :
          /\ turn.events[i].arg # <<>>
          /\ turn.events[i].arg[Len(turn.events[i].arg)].tag = tag }

\* C34: in handle_spdm_key_exchange TH1 is computed over message_k holding the
\* request, the response prefix and the signature, after the signature is
\* appended and before the HMAC is; the HMAC is generated only after
\* generate_handshake_secret succeeded; in handle_spdm_psk_exchange TH1 is
\* computed over the request and the response prefix.
C34_Th1ThroughTheSignature ==
    IsExchange =>
        /\ \A i \in EventsOf("calc_rsp_transcript_hash") :
              /\ TagsOf(turn.events[i].arg)
                    = IF IsKeyExchange THEN <<"request", "response_prefix", "signature">>
                                       ELSE <<"request", "response_prefix">>
              /\ IsKeyExchange => \E j \in AppendsOf("signature") : j < i
              /\ \A j \in AppendsOf("hmac") : i < j
              /\ \A j \in EventsOf("generate_handshake_secret") : i < j
        /\ \A i \in EventsOf("generate_hmac") :
              /\ \E j \in EventsOf("generate_handshake_secret") : j < i
              /\ \E j \in EventsOf("calc_rsp_transcript_hash") : j < i
        /\ \A i \in EventsOf("store_message_k") :
              session[turn.events[i].arg].secret \in {"handshake", "master"}

\* A KeyExchange that goes through while another session is active.
C34_Witness ==
    /\ IsKeyExchange
    /\ ResponseTransmitted
    /\ Allocated(pre.session) # {}
    /\ EventsOf("calc_rsp_transcript_hash") # {}
    /\ EventsOf("generate_hmac") # {}
    /\ AppendsOf("hmac") # {}

\* C36: the allocated slots of the Responder hold pairwise distinct session ids.
C36_AllocatedIdsAreDistinct ==
    \A i \in Allocated(session), j \in Allocated(session) :
        i # j => session[i].session_id # session[j].session_id

(***************************************************************************)
(* Lookups of the registry while another thread installs the provider.     *)
(***************************************************************************)
Providers == { ContextOf(t) : t \in Threads } \cup {"DEFAULT"}

\* C37: a lookup that returns has called an installed provider, also when it
\* ran while another thread was installing the provider of the same entry.
C37_LookupNeverFailsUnderInitialization ==
    reader.pc = "returned" => reader.used \in Providers

(***************************************************************************)
(* Decoders on hostile lengths and counts.                                 *)
(***************************************************************************)
CertChainRead == codec_call.op = "SpdmCertChain::spdm_read"

NotPresent == ~codec_call.ret.ok /\ codec_call.ret.value = "None"

Panicked == ~codec_call.ret.ok /\ codec_call.ret.value = "panic"

\* C35: no decoder panics; a certificate chain whose length field is below
\* 4 + the hash size decodes as not-present, and so does a measurement record
\* with a block whose value_size is above 65532.
C35_DecodersNeverPanic ==
    /\ (CertChainRead \/ RecordRead) => ~Panicked
    /\ (CertChainRead /\ codec_call.length < 4 + codec_call.context.hash_size) => NotPresent
    /\ ( /\ RecordRead
         /\ \E i \in DOMAIN codec_call.frame.blocks :
               codec_call.frame.blocks[i].value_size > 65532 ) => NotPresent

VersionRead == codec_call.op = "SpdmVersionResponsePayload::spdm_read"

PskRead == codec_call.op = "psk_spdm_read"

\* C38: what a successful decode returns has its count or size field within
\* the capacity of its array, and as many elements as the field says.
C38_DecodedCountsFitTheirArrays ==
    /\ (VersionRead /\ codec_call.ret.ok)
          => /\ codec_call.ret.value.version_number_entry_count <= MaxVersionCount
             /\ Len(codec_call.ret.value.versions)
                   = codec_call.ret.value.version_number_entry_count
    /\ (RecordRead /\ codec_call.ret.ok)
          => /\ codec_call.ret.value.number_of_blocks <= MaxBlockCount
             /\ Len(codec_call.ret.value.record) = codec_call.ret.value.number_of_blocks
             /\ \A i \in DOMAIN codec_call.ret.value.record :
                   LET measurement == codec_call.ret.value.record[i].measurement
                   IN  /\ measurement.value_size <= MaxValueLen
                       /\ Len(measurement.value) = measurement.value_size
    /\ (PskRead /\ codec_call.ret.ok)
          => /\ codec_call.ret.value.data_size <= psk_capacity(codec_call.struct)
             /\ Len(codec_call.ret.value.data) = codec_call.ret.value.data_size

====
